---- MODULE Spec2Model ----
(***************************************************************************)
(* State-machine model of the autmc launcher: the Svelte front end         *)
(* (instance tiles, log stores, creation flow, account views) driving the  *)
(* launcher core through Tauri commands and events.                        *)
(*                                                                         *)
(* Front-end definitions are translated from the Svelte/TypeScript         *)
(* sources.  The launcher core (the Rust side behind `invoke`) is          *)
(* modelled from its specification: lock table, supervisor, catalog and    *)
(* account set.                                                            *)
(*                                                                         *)
(* Strings that the code searches or compares are modelled as sequences    *)
(* of tokens, so that `includes` and the collation are computed.           *)
(***************************************************************************)
EXTENDS Integers, Sequences, FiniteSets, Bags, TLC

VARIABLES
    \* ---- launcher core ----
    catalog,            \* set of instance configurations on disk
    running,            \* lock table: instance name -> a run is in progress
    spawned,            \* instance name -> number of child processes spawned
    emitted,            \* instance name -> events emitted for it, in order
    eventQ,             \* instance name -> events emitted, not yet dispatched
    authErrors,         \* authentication-error events emitted, in order
    accounts,           \* AccountSet.accounts (uuids)
    active_account,     \* AccountSet.active_account_uuid
    tokenFresh,         \* accounts whose Minecraft access token has not expired
    refreshOk,          \* accounts whose stored refresh token is still accepted
    issued,             \* device codes issued by start_authentication_flow
    authorized,         \* device code -> account that completed the web flow
    \* ---- calls in flight (invoke promises) ----
    launchCalls,        \* launch_instance
    logsCalls,          \* get_logs
    loadCalls,          \* load_instances
    obtainCalls,        \* obtain_version
    startCalls,         \* start_authentication_flow
    pollCalls,          \* poll_device_code_authentication
    loginCalls,         \* login_to_account
    accountsCalls,      \* get_accounts
    \* ---- front end ----
    appVersion,         \* which App.svelte is built: "setup" or "onMount"
    route,              \* the router's location
    activeMenuId,       \* Home: which content component is shown
    settings,           \* NewInstanceSettings: the settings being edited
    doneHandled,        \* names whose instance-done event a listener has handled
    instanceStore,      \* $instanceStore
    instanceStateStore, \* $instanceStateStore
    logStore,           \* $logStore   (App.svelte with setup())
    writableMap,        \* $writableMap (App.svelte with onMount())
    loginId,            \* Login: which creation of the component is on screen
    deviceCode,         \* Login: deviceCode
    authenticationError,\* Login: authenticationError
    accountInfo,        \* account list: accountInfo
    selectedInstance,   \* Logs: selectedInstance
    selectedLog,        \* Logs: selectedLog
    logs,               \* Logs: the lines being shown
    manifestStore,      \* $manifestStore
    manifestCalls,      \* obtain_manifests calls in flight
    manifestRequests,   \* obtain_manifests commands invoked since the start
    prefetch,           \* App.svelte onMount: its obtain_manifests statement
    versionPage,        \* NewInstanceVersion: the selections of the page
    manifestShown,      \* NewInstanceVersion: the {:then} branch is rendered
    locationState,      \* $location.state of the creation pages
    \* ---- the Download Executor ----
    disk,               \* destination -> content of the file ("absent" if none)
    tasks,              \* destination -> state of its FetchTask in this run
    attempts,           \* destination -> download attempts made in this run
    dlRun,              \* number of the executor's run (0 before the first)
    dlResult,           \* run -> "none", "running", "success" or "failed"
    netRequests,        \* run -> network requests performed
    \* ---- the Manifest Resolver, step 4 ----
    host,               \* os.name of the current host
    startPolarity,      \* the evaluator's polarity before a non-empty rule list
    libraries,          \* the libraries of the merged descriptor: their rules[]
    evaluated,          \* how many libraries have been evaluated
    survivors,          \* indices of the libraries kept so far
    \* ---- screenshots ----
    shots,              \* instance -> the .png files under its screenshots/
    shotCalls,          \* get_screenshots calls in flight
    screenshotStore,    \* $screenshotStore
    \* ---- the terminal log view ----
    termSelection,      \* Logs: selectedInstance, selectedLog, filter, useRegex
    readCalls,          \* read_log_lines calls in flight
    terminal,           \* the lines written to the terminal
    \* ---- the New Instance modal ----
    showNewInstanceModal,    \* Instances: the modal is open
    selectedInstanceType,    \* NewInstance: the tab of the modal
    selectedModloader,       \* NewInstance / VanillaOptions
    selectedVanillaVersion,  \* NewInstance / VanillaOptions
    selectedModloaderVersion,\* NewInstance / VanillaOptions
    zipPath,                 \* NewInstance / ImportZip
    zipCalls,                \* import_zip commands invoked
    \* ---- the CurseForge browser ----
    searchFilter,       \* BrowseCurseforge: searchFilter
    browsePage,         \* BrowseCurseforge: page
    modpacks,           \* BrowseCurseforge: modpacks
    searchCalls,        \* search_curseforge calls in flight
    infiniteStatus,     \* InfiniteLoading: "ready", "loading" or "complete"
    \* ---- the context menu ----
    showMenu,           \* RightClickModal: showMenu
    lastTarget,         \* RightClickModal: lastTarget
    timers,             \* RightClickModal: right clicks waiting for their 100 ms timer
    folderCalls,        \* open_folder commands invoked
    \* ---- the download count of a modpack row ----
    downloadCount,      \* ModpackInformation.downloadCount
    formatted           \* the text formatDownloads returned for it

vars == <<catalog, running, spawned, emitted, eventQ, authErrors, accounts,
          active_account, tokenFresh, refreshOk, launchCalls, logsCalls,
          loadCalls, obtainCalls, appVersion, route, activeMenuId, settings,
          doneHandled, instanceStore, instanceStateStore, logStore, writableMap,
          issued, authorized, startCalls, pollCalls, loginCalls, accountsCalls,
          loginId, deviceCode, authenticationError, accountInfo,
          selectedInstance, selectedLog, logs, manifestStore, manifestCalls,
          manifestRequests, prefetch, versionPage, manifestShown, locationState,
          disk, tasks, attempts, dlRun, dlResult, netRequests,
          host, startPolarity, libraries, evaluated, survivors,
          shots, shotCalls, screenshotStore, termSelection, readCalls, terminal,
          showNewInstanceModal, selectedInstanceType, selectedModloader,
          selectedVanillaVersion, selectedModloaderVersion, zipPath, zipCalls,
          searchFilter, browsePage, modpacks, searchCalls, infiniteStatus,
          showMenu, lastTarget, timers, folderCalls,
          downloadCount, formatted>>

\* The version page of the creation flow and the manifest store
pageVars == <<manifestStore, manifestCalls, manifestRequests, prefetch, versionPage,
              manifestShown, locationState>>

\* The screenshot files and the Screenshots view
shotVars == <<shots, shotCalls, screenshotStore>>

\* The Logs view that writes to a terminal
terminalVars == <<termSelection, readCalls, terminal>>

\* The Manifest Resolver's rule evaluation
resolverVars == <<host, startPolarity, libraries, evaluated, survivors>>

\* The Download Executor
downloadVars == <<disk, tasks, attempts, dlRun, dlResult, netRequests>>

\* The New Instance modal
modalVars == <<showNewInstanceModal, selectedInstanceType, selectedModloader,
               selectedVanillaVersion, selectedModloaderVersion, zipPath, zipCalls>>

\* The CurseForge browser
browseVars == <<searchFilter, browsePage, modpacks, searchCalls, infiniteStatus>>

\* The context menu of the Instances view
menuVars == <<showMenu, lastTarget, timers, folderCalls>>

\* The download count shown for a modpack
fmtVars == <<downloadCount, formatted>>

\* The modal and the components opened from the pages
lateVars == <<modalVars, browseVars, menuVars, fmtVars>>

\* The views other than the Logs view, and the core's jobs
otherViewVars == <<pageVars, downloadVars, resolverVars, shotVars, terminalVars,
                   lateVars>>

\* The Logs view
logViewVars == <<selectedInstance, selectedLog, logs>>

\* The state of the views opened from the side menu and the creation pages
viewVars == <<logViewVars, otherViewVars>>

coreVars == <<catalog, running, spawned, emitted, eventQ, authErrors, accounts,
              active_account, tokenFresh, refreshOk>>

\* The sign-in flow and the account views
authVars == <<issued, authorized, startCalls, pollCalls, loginCalls, accountsCalls,
              loginId, deviceCode, authenticationError, accountInfo>>

\* The front end's stores and component state
uiVars == <<appVersion, route, activeMenuId, settings, doneHandled, instanceStore,
            instanceStateStore, logStore, writableMap>>

----------------------------------------------------------------------------
\* Bounds of the model

\* invoke promises of one command that may be pending at once
MaxCalls == 2
\* instance-logging events emitted for one instance
MaxLines == 2
\* runs of one instance
MaxRuns == 2
\* device codes issued, creations of the Login component, and promises of
\* start_authentication_flow that may be pending at once
MaxSignIns == 1
\* promises of one account-list command that may be pending at once
MaxOpen == 1

----------------------------------------------------------------------------
\* Values

Undefined == "undefined"

\* InstanceState (instancestatetore.ts)
Initializing == "Initializing"
Initialized == "Initialized"

Versions == { <<"1", ".", "2">>, <<"1", ".", "1", "0">> }

\* modloaderTypeToString (menu.ts): None gives the empty string
modloaderTypeToString(type) ==
    CASE type = "Fabric" -> <<"Fabric">>
      [] type = "Forge" -> <<"Forge">>
      [] OTHER -> <<>>

\* generateInstanceName (NewInstanceSettings.svelte)
generateInstanceName(state) ==
    LET modloaderString == modloaderTypeToString(state.modloaderType)
        r1 == <<"Minecraft">>
        r2 == IF modloaderString # <<>> THEN r1 \o <<" ">> ELSE r1
        r3 == r2 \o modloaderString
    IN  IF state.vanillaVersion # <<>>
        THEN r3 \o <<" ">> \o state.vanillaVersion
        ELSE r3

VanillaState(v) ==
    [vanillaVersion |-> v, modloaderVersion |-> <<>>, modloaderType |-> "None"]

TestName == <<"T">>

Names == {TestName} \cup { generateInstanceName(VanillaState(v)) : v \in Versions }

Uuids == {"u1", "u2"}

\* Log lines, as token sequences
LineSettingUser == <<"[Render thread/INFO]:", "Setting user:", "Steve">>
LineOpenAL == <<"[Render thread/INFO]:", "Initializing LWJGL OpenAL">>
LinePlain == <<"[main/INFO]:", "Loading">>
LineWarn == <<"[main", "/WARN]:", "Slow">>
LineError == <<"[main", "/ERROR]:", "Crash">>
LineWarnThenError == <<"[main", "/WARN]:", "caused", "[net", "/ERROR]:", "Reset">>

\* Lines of every class
LogLines == {LinePlain, LineWarn, LineError, LineWarnThenError}

Lines == {LineSettingUser, LineOpenAL, LinePlain}

\* String.prototype.includes on token sequences
Includes(line, needle) == \E k \in 1..Len(line) : line[k] = needle

IsSentinel(line) ==
    Includes(line, "Setting user:") \/ Includes(line, "Initializing LWJGL OpenAL")

\* Log ids
RunningKey == <<"running">>
ActiveKey == <<"active">>
RotatedKey(r) == <<"log", r>>

----------------------------------------------------------------------------
\* JavaScript Map helpers (a Map is a function with a finite domain)

EmptyMap == <<>>

\* A variable that is undefined or holds an object: no element, or the object
None == {}

Some(v) == {v}

Get(o) == CHOOSE v \in o : TRUE

MapHas(m, k) == k \in DOMAIN m

MapSet(m, k, v) == [x \in (DOMAIN m) \cup {k} |-> IF x = k THEN v ELSE m[x]]

\* new Map([...a, ...b]): on a common key the later entry, b's, wins
MapSpread(a, b) ==
    [x \in (DOMAIN a) \cup (DOMAIN b) |-> IF x \in DOMAIN b THEN b[x] ELSE a[x]]

\* The pending promises of a command form a bag: two calls with the same
\* arguments and the same outcome are interchangeable.
NoCalls == EmptyBag

Pending(calls) == BagToSet(calls)

AddCall(calls, c) == calls (+) SetToBag({c})

RemoveCall(calls, c) == calls (-) SetToBag({c})

ReplaceCall(calls, c, d) == AddCall(RemoveCall(calls, c), d)

\* The step serves the pending call c
Served(c, calls, calls2) ==
    c.status = "sent" /\ CopiesIn(c, calls2) = CopiesIn(c, calls) - 1

\* The step runs the continuation of the settled call c
Continued(c, calls, calls2) ==
    c.status # "sent" /\ CopiesIn(c, calls2) = CopiesIn(c, calls) - 1

----------------------------------------------------------------------------
\* Events

LoggingEvent(n, line, run) ==
    [type |-> "instance-logging", instance_name |-> n, line |-> line, run |-> run]

ExitedEvent(n, run) ==
    [type |-> "instance-exited", instance_name |-> n, line |-> <<>>, run |-> run]

DoneEvent(n) ==
    [type |-> "instance-done", instance_name |-> n, line |-> <<>>, run |-> 0]

RECURSIVE LinesOf(_)
\* The lines of the instance-logging events of a sequence of events, in order
LinesOf(events) ==
    IF events = <<>> THEN <<>>
    ELSE LET rest == LinesOf(Tail(events))
         IN  IF Head(events).type = "instance-logging"
             THEN <<Head(events).line>> \o rest
             ELSE rest

RECURSIVE LinesOfRun(_, _)
LinesOfRun(events, run) ==
    IF events = <<>> THEN <<>>
    ELSE LET rest == LinesOfRun(Tail(events), run)
         IN  IF Head(events).type = "instance-logging" /\ Head(events).run = run
             THEN <<Head(events).line>> \o rest
             ELSE rest

CatalogNames == { cfg.instance_name : cfg \in catalog }

----------------------------------------------------------------------------
\* Natural (numeric-aware) collation of instance names:
\* a.instance_name.localeCompare(b.instance_name, "en", {numeric: true})

Digits == {"0", "1", "2", "3", "4", "5", "6", "7", "8", "9"}

DigitValue(d) ==
    CASE d = "0" -> 0 [] d = "1" -> 1 [] d = "2" -> 2 [] d = "3" -> 3
      [] d = "4" -> 4 [] d = "5" -> 5 [] d = "6" -> 6 [] d = "7" -> 7
      [] d = "8" -> 8 [] OTHER -> 9

\* Primary collation weight of a token: white space and punctuation sort
\* before digits, digits before letters; words sort alphabetically.
DigitWeight == 10

TokenWeight(t) ==
    CASE t = " " -> 1
      [] t = "." -> 2
      [] t \in Digits -> DigitWeight
      [] t = "Fabric" -> 21
      [] t = "Forge" -> 22
      [] t = "Minecraft" -> 23
      [] t = "T" -> 24
      [] OTHER -> 30

RECURSIVE DigitPrefixLen(_)
DigitPrefixLen(s) ==
    IF s = <<>> \/ Head(s) \notin Digits THEN 0 ELSE 1 + DigitPrefixLen(Tail(s))

RECURSIVE DigitsValue(_, _)
DigitsValue(s, acc) ==
    IF s = <<>> THEN acc ELSE DigitsValue(Tail(s), acc * 10 + DigitValue(Head(s)))

RECURSIVE Chunks(_)
\* A name as collation elements: a run of digits is one element, its number
Chunks(s) ==
    IF s = <<>> THEN <<>>
    ELSE IF Head(s) \in Digits
         THEN LET k == DigitPrefixLen(s)
              IN  <<[weight |-> DigitWeight, num |-> DigitsValue(SubSeq(s, 1, k), 0)]>>
                      \o Chunks(SubSeq(s, k + 1, Len(s)))
         ELSE <<[weight |-> TokenWeight(Head(s)), num |-> 0]>> \o Chunks(Tail(s))

RECURSIVE ChunksCompare(_, _)
\* -1, 0 or 1
ChunksCompare(a, b) ==
    IF a = <<>> /\ b = <<>> THEN 0
    ELSE IF a = <<>> THEN -1
    ELSE IF b = <<>> THEN 1
    ELSE IF Head(a).weight < Head(b).weight THEN -1
    ELSE IF Head(a).weight > Head(b).weight THEN 1
    ELSE IF Head(a).num < Head(b).num THEN -1
    ELSE IF Head(a).num > Head(b).num THEN 1
    ELSE ChunksCompare(Tail(a), Tail(b))

RECURSIVE Units(_)
\* A name as collation elements without {numeric: true}: every digit by itself
Units(s) ==
    IF s = <<>> THEN <<>>
    ELSE <<[weight |-> TokenWeight(Head(s)),
            num |-> IF Head(s) \in Digits THEN DigitValue(Head(s)) ELSE 0]>>
            \o Units(Tail(s))

\* (variant: the comparison without the numeric option)
localeCompareLexicographic(a, b) == ChunksCompare(Units(a), Units(b))

localeCompareNumeric(a, b) == ChunksCompare(Chunks(a), Chunks(b))

RECURSIVE InsertSorted(_, _)
InsertSorted(cfg, sorted) ==
    IF sorted = <<>> THEN <<cfg>>
    ELSE IF localeCompareNumeric(cfg.instance_name, Head(sorted).instance_name) < 0
         THEN <<cfg>> \o sorted
         ELSE <<Head(sorted)>> \o InsertSorted(cfg, Tail(sorted))

RECURSIVE SortInstances(_)
\* Array.prototype.sort with the comparator above (stable)
SortInstances(list) ==
    IF list = <<>> THEN <<>>
    ELSE LET n == Len(list)
         IN  InsertSorted(list[n], SortInstances(SubSeq(list, 1, n - 1)))

RECURSIVE SetToSortedSeq(_)
SetToSortedSeq(S) ==
    IF S = {} THEN <<>>
    ELSE LET x == CHOOSE y \in S : TRUE
         IN  InsertSorted(x, SetToSortedSeq(S \ {x}))

StoreNames(store) ==
    IF store = Undefined THEN {} ELSE { store[k].instance_name : k \in 1..Len(store) }

----------------------------------------------------------------------------
\* Launcher core: supervisor, lock table, authentication refresh, logs

RECURSIVE LoggingCount(_)
\* The number of instance-logging events emitted for the instances of S
LoggingCount(S) ==
    IF S = {} THEN 0
    ELSE LET n == CHOOSE x \in S : TRUE
         IN  Len(LinesOf(emitted[n])) + LoggingCount(S \ {n})

\* Runs of n that have ended: their live buffer was sealed and rotated
FinishedRuns(n) == { r \in 1..spawned[n] : r < spawned[n] \/ ~running[n] }

\* Logs that exist before the launcher starts
OldLogs(n) == IF n = TestName THEN {0} ELSE {}

\* get_logs: instance name -> { log id -> lines }
LogsOf(n) ==
    LET rotated == OldLogs(n) \cup FinishedRuns(n)
        keys == { RotatedKey(r) : r \in rotated }
                    \cup (IF running[n] THEN {RunningKey} ELSE {})
    IN  [k \in keys |->
            IF k = RunningKey THEN LinesOfRun(emitted[n], spawned[n])
            ELSE IF k[2] = 0 THEN <<LinePlain>>
            ELSE LinesOfRun(emitted[n], k[2])]

GetLogs == [n \in CatalogNames |-> LogsOf(n)]

\* (variant: the outcome of the refresh is ignored)
ServeLaunchIgnoringRefresh(c) ==
    LET n == c.instanceName
    IN  /\ c \in Pending(launchCalls)
        /\ c.status = "sent"
        /\ ~running[n]
        /\ spawned[n] < MaxRuns
        /\ running' = [running EXCEPT ![n] = TRUE]
        /\ spawned' = [spawned EXCEPT ![n] = @ + 1]
        /\ launchCalls' = ReplaceCall(launchCalls, c, [c EXCEPT !.status = "ok"])
        /\ UNCHANGED <<viewVars, catalog, emitted, eventQ, authErrors, accounts, active_account,
                       tokenFresh, refreshOk, logsCalls, loadCalls, obtainCalls, authVars, uiVars>>

\* launch_instance: the lock table refuses a second launch; otherwise the
\* access token is refreshed if it has expired, and the child is spawned.
ServeLaunch(c) ==
    LET n == c.instanceName
        settle(status) ==
            launchCalls' = ReplaceCall(launchCalls, c, [c EXCEPT !.status = status])
    IN  /\ c \in Pending(launchCalls)
        /\ c.status = "sent"
        /\ IF running[n]
           THEN /\ settle("AlreadyRunning")
                /\ UNCHANGED <<running, spawned, authErrors, tokenFresh>>
           ELSE IF active_account \notin tokenFresh /\ active_account \notin refreshOk
           THEN /\ Len(authErrors) < MaxCalls
                /\ authErrors' = Append(authErrors,
                        [uuid |-> active_account, kind |-> "RefreshRejected"])
                /\ settle("RefreshRejected")
                /\ UNCHANGED <<running, spawned, tokenFresh>>
           ELSE /\ spawned[n] < MaxRuns
                /\ tokenFresh' = tokenFresh \cup {active_account}
                /\ running' = [running EXCEPT ![n] = TRUE]
                /\ spawned' = [spawned EXCEPT ![n] = @ + 1]
                /\ settle("ok")
                /\ UNCHANGED authErrors
        /\ UNCHANGED <<viewVars, catalog, emitted, eventQ, accounts, active_account, refreshOk,
                       logsCalls, loadCalls, obtainCalls, authVars, uiVars>>

\* (variant: output still buffered when the child exits is emitted afterwards)
EmitLineAfterExit(n, line) ==
    /\ spawned[n] > 0
    /\ LoggingCount({n}) < MaxLines
    /\ emitted' = [emitted EXCEPT ![n] = Append(@, LoggingEvent(n, line, spawned[n]))]
    /\ eventQ' = [eventQ EXCEPT ![n] = Append(@, LoggingEvent(n, line, spawned[n]))]
    /\ UNCHANGED <<viewVars, catalog, running, spawned, authErrors, accounts, active_account,
                   tokenFresh, refreshOk, launchCalls, logsCalls, loadCalls,
                   obtainCalls, authVars, uiVars>>

\* The supervisor reads a line of the child's output and emits it
EmitLine(n, line) ==
    /\ running[n]
    /\ LoggingCount({n}) < MaxLines
    /\ emitted' = [emitted EXCEPT ![n] = Append(@, LoggingEvent(n, line, spawned[n]))]
    /\ eventQ' = [eventQ EXCEPT ![n] = Append(@, LoggingEvent(n, line, spawned[n]))]
    /\ UNCHANGED <<viewVars, catalog, running, spawned, authErrors, accounts, active_account,
                   tokenFresh, refreshOk, launchCalls, logsCalls, loadCalls,
                   obtainCalls, authVars, uiVars>>

\* The child exits: instance-exited is emitted and the lock is released
ProcessExit(n) ==
    /\ running[n]
    /\ running' = [running EXCEPT ![n] = FALSE]
    /\ emitted' = [emitted EXCEPT ![n] = Append(@, ExitedEvent(n, spawned[n]))]
    /\ eventQ' = [eventQ EXCEPT ![n] = Append(@, ExitedEvent(n, spawned[n]))]
    /\ UNCHANGED <<viewVars, catalog, spawned, authErrors, accounts, active_account,
                   tokenFresh, refreshOk, launchCalls, logsCalls, loadCalls,
                   obtainCalls, authVars, uiVars>>

\* The Minecraft access token of an account expires
TokenExpires(u) ==
    /\ u \in tokenFresh
    /\ tokenFresh' = tokenFresh \ {u}
    /\ UNCHANGED <<viewVars, catalog, running, spawned, emitted, eventQ, authErrors, accounts,
                   active_account, refreshOk, launchCalls, logsCalls, loadCalls,
                   obtainCalls, authVars, uiVars>>

\* The stored refresh token of an account is invalidated
InvalidateRefreshToken(u) ==
    /\ u \in refreshOk
    /\ refreshOk' = refreshOk \ {u}
    /\ UNCHANGED <<viewVars, catalog, running, spawned, emitted, eventQ, authErrors, accounts,
                   active_account, tokenFresh, launchCalls, logsCalls, loadCalls,
                   obtainCalls, authVars, uiVars>>

\* get_logs is served: a snapshot of the logs
ServeGetLogs(c) ==
    /\ c \in Pending(logsCalls)
    /\ c.status = "sent"
    /\ logsCalls' = ReplaceCall(logsCalls, c, [c EXCEPT !.status = "ok", !.result = GetLogs])
    /\ UNCHANGED <<viewVars, coreVars, launchCalls, loadCalls, obtainCalls, authVars, uiVars>>

----------------------------------------------------------------------------
\* Front end: Instances.svelte (tiles, launch, listeners)

\* Home shows Instances only under activeMenuId == MenuId.Instances; its
\* listeners live from onMount to onDestroy.
InstancesMounted == route = "/" /\ activeMenuId = "Instances"

StateOf(states, n) == IF MapHas(states, n) THEN states[n] ELSE Undefined

\* launchInstance, up to the await: invoke("launch_instance", {instanceName: this.id})
ClickLaunch(n) ==
    /\ InstancesMounted
    /\ n \in StoreNames(instanceStore)
    /\ BagCardinality(launchCalls) < MaxCalls
    /\ launchCalls' = AddCall(launchCalls, [instanceName |-> n, status |-> "sent"])
    /\ UNCHANGED <<viewVars, coreVars, logsCalls, loadCalls, obtainCalls, authVars, uiVars>>

\* launchInstance, after the await: a rejected promise throws and the rest
\* of the function does not run
LaunchContinuationAlways(states, c) ==
    MapSpread(states, c.instanceName :> Initializing)

launchInstanceContinuation(states, c) ==
    IF c.status = "ok"
    THEN MapSpread(states, c.instanceName :> Initializing)
    ELSE states

LaunchSettled(c) ==
    /\ c \in Pending(launchCalls)
    /\ c.status # "sent"
    /\ launchCalls' = RemoveCall(launchCalls, c)
    /\ instanceStateStore' = launchInstanceContinuation(instanceStateStore, c)
    /\ UNCHANGED <<viewVars, coreVars, logsCalls, loadCalls, obtainCalls, authVars, appVersion, route,
                   activeMenuId, settings, doneHandled, instanceStore, logStore,
                   writableMap>>

\* The instance-logging listener of Instances.svelte
instanceStateListener(states, payload) ==
    IF StateOf(states, payload.instance_name) = Initialized
    THEN states
    ELSE IF Includes(payload.line, "Setting user:")
            \/ Includes(payload.line, "Initializing LWJGL OpenAL")
         THEN MapSpread(states, payload.instance_name :> Initialized)
         ELSE states

\* retrieveInstances(useRegex, filter, force), up to the await
RetrieveInstances(force) ==
    IF instanceStore = Undefined \/ force
    THEN /\ BagCardinality(loadCalls) < MaxCalls
         /\ loadCalls' = AddCall(loadCalls, [status |-> "sent", result |-> <<>>])
    ELSE UNCHANGED loadCalls

\* Home: a side-menu button sets activeMenuId; Instances is destroyed or
\* created, and on creation `$: promise = retrieveInstances(...)` runs
SwitchMenu(id) ==
    /\ route = "/"
    /\ id # activeMenuId
    /\ activeMenuId' = id
    /\ IF id = "Instances" THEN RetrieveInstances(FALSE) ELSE UNCHANGED loadCalls
    /\ UNCHANGED <<viewVars, coreVars, launchCalls, logsCalls, obtainCalls, authVars, appVersion, route,
                   settings, doneHandled, instanceStore, instanceStateStore,
                   logStore, writableMap>>

----------------------------------------------------------------------------
\* Front end: App.svelte (log stores)

\* The instance-logging listener of setup()
LoggingListenerReset(store, payload) ==
    LET currentMap == IF MapHas(store, payload.instance_name)
                      THEN store[payload.instance_name] ELSE EmptyMap
    IN  MapSet(store, payload.instance_name,
               MapSet(currentMap, RunningKey, <<payload.line>>))

setupLoggingListener(store, payload) ==
    LET currentMap == IF MapHas(store, payload.instance_name)
                      THEN store[payload.instance_name] ELSE EmptyMap
    IN  IF MapHas(store, payload.instance_name)
           /\ MapHas(store[payload.instance_name], RunningKey)
        THEN MapSet(store, payload.instance_name,
                    MapSet(currentMap, RunningKey,
                           Append(currentMap[RunningKey], payload.line)))
        ELSE MapSet(store, payload.instance_name,
                    MapSet(currentMap, RunningKey, <<payload.line>>))

\* The instance-logging listener of onMount()
onMountLoggingListener(store, payload) ==
    IF MapHas(store, payload.instance_name)
       /\ MapHas(store[payload.instance_name], ActiveKey)
    THEN LET current == store[payload.instance_name][ActiveKey]
         IN  MapSet(store, payload.instance_name,
                    ActiveKey :> Append(current, payload.line))
    ELSE MapSet(store, payload.instance_name, ActiveKey :> <<payload.line>>)

\* After `await invoke("get_logs")`: the store's own entries win
GetLogsSettled(c) ==
    /\ c \in Pending(logsCalls)
    /\ c.status = "ok"
    /\ logsCalls' = RemoveCall(logsCalls, c)
    /\ IF appVersion = "setup"
       THEN /\ logStore' = MapSpread(c.result, logStore)
            /\ UNCHANGED writableMap
       ELSE /\ writableMap' = MapSpread(c.result, writableMap)
            /\ UNCHANGED logStore
    /\ UNCHANGED <<viewVars, coreVars, launchCalls, loadCalls, obtainCalls, authVars, appVersion, route,
                   activeMenuId, settings, doneHandled, instanceStore,
                   instanceStateStore>>

----------------------------------------------------------------------------
\* Event dispatch: the oldest undelivered event of an instance is handed to
\* every listener registered for its type.

DeliverEvent(n) ==
    /\ eventQ[n] # <<>>
    /\ LET e == Head(eventQ[n])
           payload == [instance_name |-> e.instance_name, line |-> e.line]
       IN  /\ eventQ' = [eventQ EXCEPT ![n] = Tail(@)]
           /\ IF e.type = "instance-logging"
              THEN /\ IF appVersion = "setup"
                      THEN /\ logStore' = setupLoggingListener(logStore, payload)
                           /\ UNCHANGED writableMap
                      ELSE /\ writableMap' = onMountLoggingListener(writableMap, payload)
                           /\ UNCHANGED logStore
                   /\ instanceStateStore' =
                        IF InstancesMounted
                        THEN instanceStateListener(instanceStateStore, payload)
                        ELSE instanceStateStore
                   /\ UNCHANGED <<loadCalls, doneHandled>>
              ELSE IF e.type = "instance-done" /\ InstancesMounted
              THEN /\ RetrieveInstances(TRUE)
                   /\ doneHandled' = doneHandled \cup {e.instance_name}
                   /\ UNCHANGED <<logStore, writableMap, instanceStateStore>>
              ELSE UNCHANGED <<logStore, writableMap, instanceStateStore, loadCalls,
                               doneHandled>>
    /\ UNCHANGED <<catalog, running, spawned, emitted, authErrors, accounts,
                   active_account, tokenFresh, refreshOk, launchCalls, logsCalls,
                   obtainCalls, authVars, appVersion, route, activeMenuId, settings,
                   instanceStore>>

\* Dispatch while no view that follows the log store is open
Deliver(n) == DeliverEvent(n) /\ UNCHANGED viewVars

----------------------------------------------------------------------------
\* The run of an instance: launch, logging, exit

TestConfig ==
    [instance_name |-> TestName, vanilla_version |-> <<"1", ".", "2">>,
     record_playtime |-> TRUE]

OtherConfig ==
    [instance_name |-> generateInstanceName(VanillaState(<<"1", ".", "1", "0">>)),
     vanilla_version |-> <<"1", ".", "1", "0">>,
     record_playtime |-> TRUE]

StartupLogs(configs) ==
    [n \in { cfg.instance_name : cfg \in configs } |->
        [k \in { RotatedKey(r) : r \in OldLogs(n) } |-> <<LinePlain>>]]

\* The manifest the core returns for obtain_manifests: vanilla versions newest
\* first, Fabric loader versions, and the Forge builds of each vanilla
\* version, which differ from one vanilla version to the other
ObtainManifests ==
    [vanilla_versions |-> << <<"1", ".", "1", "0">>, <<"1", ".", "2">> >>,
     fabric_versions |-> << <<"fabric", "b">>, <<"fabric", "a">> >>,
     forge_versions |-> [v \in Versions |->
                            IF v = <<"1", ".", "2">>
                            THEN << <<"forge", "c">> >>
                            ELSE << <<"forge", "a">>, <<"forge", "b">> >>]]

\* App.svelte with setup() has fetched the manifests before Home is shown;
\* with onMount() the store is undefined (manifeststore.ts) and the
\* obtain_manifests statement of onMount, if the build has one, is still ahead
ManifestsStarted(prefetches) ==
    IF appVersion = "setup"
    THEN /\ manifestStore = Some(ObtainManifests)
         /\ manifestRequests = 1
         /\ prefetch = "none"
    ELSE /\ manifestStore = None
         /\ manifestRequests = 0
         /\ prefetch \in prefetches

\* No creation page is open
PagesIdle ==
    /\ manifestCalls = NoCalls
    /\ versionPage = None
    /\ manifestShown = FALSE
    /\ locationState = None

\* The files of the profile and the runs of the Download Executor
Destinations == {"library", "client", "logging"}
ExecutorRuns == {1, 2}

\* The Download Executor has not run; the files are as `files` gives them
ExecutorIdle(files) ==
    /\ disk = files
    /\ tasks = [d \in Destinations |-> "none"]
    /\ attempts = [d \in Destinations |-> 0]
    /\ dlRun = 0
    /\ dlResult = [r \in ExecutorRuns |-> "none"]
    /\ netRequests = [r \in ExecutorRuns |-> 0]

\* The file names Minecraft gives screenshots, here hour and minute
ShotNames == { <<"0", "9", ".", "5", "9", ".", "png">>,
               <<"1", "0", ".", "0", "0", ".", "png">>,
               <<"1", "0", ".", "0", "5", ".", "png">> }

\* UTF-16 code unit of the first character of a token
CodeUnit(t) ==
    CASE t = "." -> 46
      [] t \in Digits -> 48 + DigitValue(t)
      [] OTHER -> 112

RECURSIVE CodeUnits(_)
CodeUnits(s) ==
    IF s = <<>> THEN <<>>
    ELSE <<[weight |-> CodeUnit(Head(s)), num |-> 0]>> \o CodeUnits(Tail(s))

\* The comparison of Array.prototype.sort() without a comparator, and of the
\* core's sort by file name
codeUnitCompare(a, b) == ChunksCompare(CodeUnits(a), CodeUnits(b))

compareShots(a, b, numeric) ==
    IF numeric THEN localeCompareNumeric(a, b) ELSE codeUnitCompare(a, b)

RECURSIVE InsertShot(_, _, _)
InsertShot(x, sorted, numeric) ==
    IF sorted = <<>> THEN <<x>>
    ELSE IF compareShots(x, Head(sorted), numeric) < 0
         THEN <<x>> \o sorted
         ELSE <<Head(sorted)>> \o InsertShot(x, Tail(sorted), numeric)

RECURSIVE SortShots(_, _)
\* Array.prototype.sort, in place and stable
SortShots(list, numeric) ==
    IF list = <<>> THEN <<>>
    ELSE LET n == Len(list)
         IN  InsertShot(list[n], SortShots(SubSeq(list, 1, n - 1), numeric), numeric)

RECURSIVE ShotsToSeq(_)
ShotsToSeq(S) ==
    IF S = {} THEN <<>>
    ELSE LET x == CHOOSE y \in S : TRUE
         IN  InsertShot(x, ShotsToSeq(S \ {x}), FALSE)

\* Array.prototype.reverse
Reverse(s) == [k \in 1..Len(s) |-> s[Len(s) + 1 - k]]

\* get_screenshots: for every instance the .png files under screenshots/,
\* sorted descending by file name
GetScreenshots(files) == [n \in CatalogNames |-> Reverse(ShotsToSeq(files[n]))]

\* screenshotstore.ts sortMap, over the entries of the object assigned to the
\* store
sortMap(map) == [key \in DOMAIN map |-> Reverse(SortShots(map[key], FALSE))]

\* The instances have the screenshot files `files`; App.svelte with setup()
\* has assigned and sorted the store, with onMount() it is the initial Map
ShotsStarted(files) ==
    /\ shots = files
    /\ shotCalls = NoCalls
    /\ screenshotStore = IF appVersion = "setup" THEN sortMap(GetScreenshots(files))
                         ELSE EmptyMap

\* The terminal log view is not open
TerminalIdle ==
    /\ termSelection = None
    /\ readCalls = NoCalls
    /\ terminal = <<>>

\* The New Instance modal is closed
ModalIdle ==
    /\ showNewInstanceModal = FALSE
    /\ selectedInstanceType = "Vanilla"
    /\ selectedModloader = Undefined
    /\ selectedVanillaVersion = Undefined
    /\ selectedModloaderVersion = Undefined
    /\ zipPath = Undefined
    /\ zipCalls = NoCalls

\* The CurseForge browser has not been created
BrowseIdle ==
    /\ searchFilter = <<>>
    /\ browsePage = 0
    /\ modpacks = <<>>
    /\ searchCalls = NoCalls
    /\ infiniteStatus = "ready"

\* The context menu has not been used
MenuIdle ==
    /\ showMenu = FALSE
    /\ lastTarget = None
    /\ timers = NoCalls
    /\ folderCalls = NoCalls

\* No download count has been formatted
FormatIdle ==
    /\ downloadCount = 0
    /\ formatted = None

\* Neither the modal nor a component of the pages is open
LateIdle ==
    /\ ModalIdle
    /\ BrowseIdle
    /\ MenuIdle
    /\ FormatIdle

\* No descriptor is being resolved
ResolverIdle ==
    /\ host = "linux"
    /\ startPolarity = "disallow"
    /\ libraries = <<>>
    /\ evaluated = 0
    /\ survivors = {}

OtherViewsIdle ==
    /\ ManifestsStarted({"none"})
    /\ PagesIdle
    /\ ExecutorIdle([d \in Destinations |-> "good"])
    /\ ResolverIdle
    /\ ShotsStarted([n \in Names |-> {}])
    /\ TerminalIdle
    /\ LateIdle

\* No sign-in is in progress and no account view is open
AuthIdle ==
    /\ issued = {}
    /\ authorized = EmptyMap
    /\ startCalls = NoCalls
    /\ pollCalls = NoCalls
    /\ loginCalls = NoCalls
    /\ accountsCalls = NoCalls
    /\ loginId = 0
    /\ deviceCode = None
    /\ authenticationError = Undefined
    /\ accountInfo = None
    /\ selectedInstance = None
    /\ selectedLog = None
    /\ logs = <<>>
    /\ OtherViewsIdle

\* The launcher has started with `configs` installed and the Instances view
\* is shown; with onMount() the get_logs call may still be pending.
Started(configs, versions) ==
    /\ catalog = configs
    /\ running = [n \in Names |-> FALSE]
    /\ spawned = [n \in Names |-> 0]
    /\ emitted = [n \in Names |-> <<>>]
    /\ eventQ = [n \in Names |-> <<>>]
    /\ authErrors = <<>>
    /\ accounts = {"u1"}
    /\ active_account = "u1"
    /\ tokenFresh = {"u1"}
    /\ refreshOk = {"u1"}
    /\ launchCalls = NoCalls
    /\ loadCalls = NoCalls
    /\ obtainCalls = NoCalls
    /\ appVersion \in versions
    /\ logsCalls = IF appVersion = "setup" THEN NoCalls
                   ELSE SetToBag({[status |-> "sent", result |-> EmptyMap]})
    /\ route = "/"
    /\ activeMenuId = "Instances"
    /\ settings = None
    /\ doneHandled = {}
    /\ instanceStore = SetToSortedSeq(configs)
    /\ instanceStateStore = EmptyMap
    /\ logStore = IF appVersion = "setup" THEN StartupLogs(configs) ELSE EmptyMap
    /\ writableMap = EmptyMap
    /\ AuthIdle

Init == Started({TestConfig}, {"setup"})

Next ==
    \/ \E n \in Names : ClickLaunch(n)
    \/ \E c \in Pending(launchCalls) : ServeLaunch(c)
    \/ \E c \in Pending(launchCalls) : LaunchSettled(c)
    \/ \E n \in Names, line \in Lines : EmitLine(n, line)
    \/ \E n \in Names : ProcessExit(n)
    \/ \E n \in Names : Deliver(n)
    \/ \E id \in {"Instances", "Logs"} : SwitchMenu(id)

Spec == Init /\ [][Next]_vars

\* Launching while access tokens expire and refresh tokens are invalidated
NextRefresh ==
    \/ \E n \in Names : ClickLaunch(n)
    \/ \E c \in Pending(launchCalls) : ServeLaunch(c)
    \/ \E c \in Pending(launchCalls) : LaunchSettled(c)
    \/ \E n \in Names : ProcessExit(n)
    \/ \E n \in Names : Deliver(n)
    \/ \E u \in Uuids : TokenExpires(u)
    \/ \E u \in Uuids : InvalidateRefreshToken(u)

SpecRefresh == Init /\ [][NextRefresh]_vars

\* Two instances logging, under either App.svelte: both have been launched
\* from their tiles and the launch_instance promises have resolved.
InitLogs ==
    /\ catalog = {TestConfig, OtherConfig}
    /\ running = [n \in Names |-> n \in CatalogNames]
    /\ spawned = [n \in Names |-> IF n \in CatalogNames THEN 1 ELSE 0]
    /\ emitted = [n \in Names |-> <<>>]
    /\ eventQ = [n \in Names |-> <<>>]
    /\ authErrors = <<>>
    /\ accounts = {"u1"}
    /\ active_account = "u1"
    /\ tokenFresh = {"u1"}
    /\ refreshOk = {"u1"}
    /\ launchCalls = NoCalls
    /\ loadCalls = NoCalls
    /\ obtainCalls = NoCalls
    /\ appVersion \in {"setup", "onMount"}
    /\ logsCalls = IF appVersion = "setup" THEN NoCalls
                   ELSE SetToBag({[status |-> "sent", result |-> EmptyMap]})
    /\ route = "/"
    /\ activeMenuId = "Instances"
    /\ settings = None
    /\ doneHandled = {}
    /\ instanceStore = SetToSortedSeq(catalog)
    /\ instanceStateStore = [n \in CatalogNames |-> Initializing]
    /\ logStore = IF appVersion = "setup" THEN StartupLogs(catalog) ELSE EmptyMap
    /\ writableMap = EmptyMap
    /\ AuthIdle

NextLogs ==
    \/ \E n \in Names, line \in {LinePlain, LineSettingUser} : EmitLine(n, line)
    \/ \E n \in Names : ProcessExit(n)
    \/ \E n \in Names : Deliver(n)
    \/ \E id \in {"Instances", "Logs"} : SwitchMenu(id)
    \/ \E c \in Pending(logsCalls) : ServeGetLogs(c)
    \/ \E c \in Pending(logsCalls) : GetLogsSettled(c)

SpecLogs == InitLogs /\ [][NextLogs]_vars

----------------------------------------------------------------------------
\* Creating instances: NewInstanceVersion.svelte, NewInstanceSettings.svelte,
\* obtain_version, load_instances

\* NewInstanceSettings: the initial value of `settings` (the fields that reach
\* the instance configuration)
settingsInit(state) ==
    [instanceName |-> <<>>,
     vanillaVersion |-> state.vanillaVersion,
     modloaderType |-> modloaderTypeToString(state.modloaderType),
     modloaderVersion |-> state.modloaderVersion,
     recordPlaytime |-> TRUE]

\* NewInstanceSettings: $: hasConflict
hasConflict(store, s) ==
    store # Undefined /\ s.instanceName \in StoreNames(store)

\* The configuration create_instance writes for the settings of a request
ConfigOf(s) ==
    [instance_name |-> s.instanceName,
     vanilla_version |-> s.vanillaVersion,
     record_playtime |-> s.recordPlaytime]

\* Instances.svelte newInstance(): the Instances view is left
newInstance ==
    /\ InstancesMounted
    /\ route' = "/newinstance-version"
    /\ UNCHANGED <<viewVars, coreVars, launchCalls, logsCalls, loadCalls, obtainCalls, authVars,
                   appVersion, activeMenuId, settings, doneHandled, instanceStore,
                   instanceStateStore, logStore, writableMap>>

\* NewInstanceVersion.svelte next(): the settings page is created with the
\* chosen version, and `$: generateInstanceName($location.state)` runs
next(v) ==
    /\ route = "/newinstance-version"
    /\ route' = "/newinstance-settings"
    /\ settings' = Some([settingsInit(VanillaState(v)) EXCEPT
                            !.instanceName = generateInstanceName(VanillaState(v))])
    /\ UNCHANGED <<viewVars, coreVars, launchCalls, logsCalls, loadCalls, obtainCalls, authVars,
                   appVersion, activeMenuId, doneHandled, instanceStore,
                   instanceStateStore, logStore, writableMap>>

\* The "Record Playtime" checkbox, bound to settings.recordPlaytime
ToggleRecordPlaytime ==
    /\ route = "/newinstance-settings"
    /\ settings' = Some([Get(settings) EXCEPT !.recordPlaytime = ~@])
    /\ UNCHANGED <<viewVars, coreVars, launchCalls, logsCalls, loadCalls, obtainCalls, authVars,
                   appVersion, route, activeMenuId, doneHandled, instanceStore,
                   instanceStateStore, logStore, writableMap>>

\* NewInstanceSettings.svelte finish(): obtain_version is invoked, its promise
\* is dropped, and navigate("/") creates Home with the Instances view
finish ==
    /\ route = "/newinstance-settings"
    /\ BagCardinality(obtainCalls) < MaxCalls
    /\ obtainCalls' = AddCall(obtainCalls, [settings |-> Get(settings), status |-> "sent"])
    /\ route' = "/"
    /\ activeMenuId' = "Instances"
    /\ settings' = None
    /\ RetrieveInstances(FALSE)
    /\ UNCHANGED <<viewVars, coreVars, launchCalls, logsCalls, authVars, appVersion, doneHandled,
                   instanceStore, instanceStateStore, logStore, writableMap>>

\* (variant: the instance directory is written whether or not it exists)
ServeObtainVersionOverwriting(c) ==
    LET n == c.settings.instanceName
    IN  /\ c \in Pending(obtainCalls)
        /\ c.status = "sent"
        /\ catalog' = { cfg \in catalog : cfg.instance_name # n } \cup {ConfigOf(c.settings)}
        /\ emitted' = [emitted EXCEPT ![n] = Append(@, DoneEvent(n))]
        /\ eventQ' = [eventQ EXCEPT ![n] = Append(@, DoneEvent(n))]
        /\ obtainCalls' = ReplaceCall(obtainCalls, c, [c EXCEPT !.status = "ok"])
        /\ UNCHANGED <<viewVars, running, spawned, authErrors, accounts, active_account,
                       tokenFresh, refreshOk, launchCalls, logsCalls, loadCalls,
                       authVars, uiVars>>

\* obtain_version: create_instance fails with AlreadyExists if the name
\* collides; on success instance-done is emitted with the instance name
ServeObtainVersion(c) ==
    LET n == c.settings.instanceName
    IN  /\ c \in Pending(obtainCalls)
        /\ c.status = "sent"
        /\ IF n \in CatalogNames
           THEN /\ obtainCalls' = ReplaceCall(obtainCalls, c,
                                    [c EXCEPT !.status = "AlreadyExists"])
                /\ UNCHANGED <<catalog, emitted, eventQ>>
           ELSE /\ catalog' = catalog \cup {ConfigOf(c.settings)}
                /\ emitted' = [emitted EXCEPT ![n] = Append(@, DoneEvent(n))]
                /\ eventQ' = [eventQ EXCEPT ![n] = Append(@, DoneEvent(n))]
                /\ obtainCalls' = ReplaceCall(obtainCalls, c, [c EXCEPT !.status = "ok"])
        /\ UNCHANGED <<viewVars, running, spawned, authErrors, accounts, active_account,
                       tokenFresh, refreshOk, launchCalls, logsCalls, loadCalls,
                       authVars, uiVars>>

\* The promise of obtain_version settles; finish() attached nothing to it
ObtainSettled(c) ==
    /\ c \in Pending(obtainCalls)
    /\ c.status # "sent"
    /\ obtainCalls' = RemoveCall(obtainCalls, c)
    /\ UNCHANGED <<viewVars, coreVars, launchCalls, logsCalls, loadCalls, authVars, uiVars>>

\* load_instances: the parsed configurations in natural order of their names
LoadInstances == SetToSortedSeq(catalog)

ServeLoad(c) ==
    /\ c \in Pending(loadCalls)
    /\ c.status = "sent"
    /\ loadCalls' = ReplaceCall(loadCalls, c, [status |-> "ok", result |-> LoadInstances])
    /\ UNCHANGED <<viewVars, coreVars, launchCalls, logsCalls, obtainCalls, authVars, uiVars>>

\* retrieveInstances, after the await: the store is assigned and sorted
LoadSettled(c) ==
    /\ c \in Pending(loadCalls)
    /\ c.status = "ok"
    /\ loadCalls' = RemoveCall(loadCalls, c)
    /\ instanceStore' = SortInstances(c.result)
    /\ UNCHANGED <<viewVars, coreVars, launchCalls, logsCalls, obtainCalls, authVars, appVersion,
                   route, activeMenuId, settings, doneHandled, instanceStateStore,
                   logStore, writableMap>>

NextCatalog ==
    \/ newInstance
    \/ \E v \in Versions : next(v)
    \/ ToggleRecordPlaytime
    \/ finish
    \/ \E c \in Pending(obtainCalls) : ServeObtainVersion(c)
    \/ \E c \in Pending(obtainCalls) : ObtainSettled(c)
    \/ \E n \in Names : Deliver(n)
    \/ \E c \in Pending(loadCalls) : ServeLoad(c)
    \/ \E c \in Pending(loadCalls) : LoadSettled(c)
    \/ \E id \in {"Instances", "Logs"} : SwitchMenu(id)

SpecCatalog == Init /\ [][NextCatalog]_vars

\* C6: a creation request served while an instance of its name exists fails
\* with AlreadyExists and leaves the catalog as it was, announcing nothing;
\* and no step leaves two configurations with one name in the catalog.
C6_CollidingCreationFails ==
    [][/\ \A c \in Pending(obtainCalls) :
            (Served(c, obtainCalls, obtainCalls')
                /\ c.settings.instanceName \in CatalogNames) =>
                /\ catalog' = catalog
                /\ emitted' = emitted
                /\ CopiesIn([c EXCEPT !.status = "AlreadyExists"], obtainCalls')
                     = CopiesIn([c EXCEPT !.status = "AlreadyExists"], obtainCalls) + 1
       /\ \A a, b \in catalog' : a.instance_name = b.instance_name => a = b
      ]_vars

\* A request for a name the front end already lists, with settings that
\* differ from the existing instance's, was refused
C6_Witness ==
    \E c \in Pending(obtainCalls) :
        /\ c.status = "AlreadyExists"
        /\ hasConflict(instanceStore, c.settings)
        /\ ConfigOf(c.settings) \notin catalog

\* The entries of the list named n
EntriesNamed(store, n) ==
    { k \in 1..Len(store) : store[k].instance_name = n }

\* C7: once the instance-done event of n has been handled and no reload is
\* outstanding, the instance list has exactly one entry named n.
C7_ListHasCreatedInstance ==
    \A n \in doneHandled :
        loadCalls = NoCalls => Cardinality(EntriesNamed(instanceStore, n)) = 1

\* The filters typed into the search box
Filters == { <<>>, <<"Minecraft">>, <<"1">>, <<".">> }

\* String.prototype.match with the filter as a pattern: "." matches any character
Matches(name, filter) ==
    IF filter = <<".">> THEN name # <<>> ELSE Includes(name, filter[1])

\* retrieveInstances, from the filter on: what the tiles are drawn from
retrieveInstancesResult(store, useRegex, filter) ==
    IF filter # <<>>
    THEN IF useRegex
         THEN LET keep(instance) == Matches(instance.instance_name, filter)
              IN  SelectSeq(store, keep)
         ELSE LET keep(instance) == Includes(instance.instance_name, filter[1])
              IN  SelectSeq(store, keep)
    ELSE store

\* The position of the entry named n in a list, 0 if there is none
PositionOf(list, n) ==
    IF \E k \in 1..Len(list) : list[k].instance_name = n
    THEN CHOOSE k \in 1..Len(list) : list[k].instance_name = n
    ELSE 0

NameOfVersion(v) == generateInstanceName(VanillaState(v))

----------------------------------------------------------------------------
\* Accounts: Login.svelte (device-code sign-in), the account list,
\* start_authentication_flow, poll_device_code_authentication, get_accounts,
\* login_to_account

DeviceCodeOf(k) == <<"device", k>>

\* What start_authentication_flow returns for the k-th device code
StartResult(k) == [device_code |-> DeviceCodeOf(k), message |-> <<"enter", k>>]

\* get_accounts: { active_account, accounts: { uuid -> { uuid, ... } } }
GetAccounts ==
    [active_account |-> active_account, accounts |-> [u \in accounts |-> [uuid |-> u]]]

\* MenuHeader switchUser(): navigate("/login") creates the Login component
switchUser ==
    /\ route = "/"
    /\ loginId < MaxSignIns
    /\ route' = "/login"
    /\ loginId' = loginId + 1
    /\ deviceCode' = None
    /\ authenticationError' = Undefined
    /\ UNCHANGED <<viewVars, coreVars, issued, authorized, launchCalls, logsCalls, loadCalls,
                   obtainCalls, startCalls, pollCalls, loginCalls, accountsCalls,
                   accountInfo, appVersion, activeMenuId, settings, doneHandled,
                   instanceStore, instanceStateStore, logStore, writableMap>>

\* startAuthentication, up to the first await; the button is shown while
\* deviceCode is undefined
StartAuthentication ==
    /\ route = "/login"
    /\ deviceCode = None
    /\ BagCardinality(startCalls) < MaxSignIns
    /\ startCalls' = AddCall(startCalls,
                        [login |-> loginId, status |-> "sent", result |-> None])
    /\ UNCHANGED <<viewVars, coreVars, issued, authorized, launchCalls, logsCalls, loadCalls,
                   obtainCalls, pollCalls, loginCalls, accountsCalls, loginId,
                   deviceCode, authenticationError, accountInfo, uiVars>>

\* start_authentication_flow: a fresh device code, or the request fails
ServeStart(c, ok) ==
    /\ c \in Pending(startCalls)
    /\ c.status = "sent"
    /\ IF ok
       THEN /\ Cardinality(issued) < MaxSignIns
            /\ issued' = issued \cup {DeviceCodeOf(Cardinality(issued) + 1)}
            /\ startCalls' = ReplaceCall(startCalls, c,
                    [c EXCEPT !.status = "ok",
                              !.result = Some(StartResult(Cardinality(issued) + 1))])
       ELSE /\ startCalls' = ReplaceCall(startCalls, c, [c EXCEPT !.status = "Http"])
            /\ UNCHANGED issued
    /\ UNCHANGED <<viewVars, coreVars, authorized, launchCalls, logsCalls, loadCalls,
                   obtainCalls, pollCalls, loginCalls, accountsCalls, loginId,
                   deviceCode, authenticationError, accountInfo, uiVars>>

\* The component of the call c is still the one on screen
LoginOnScreen(c) == route = "/login" /\ c.login = loginId

\* startAuthentication: the second invoke
PollWithMessage(dc, login) ==
    [deviceCode |-> dc.message, login |-> login, status |-> "sent"]

startAuthenticationPoll(dc, login) ==
    [deviceCode |-> dc.device_code, login |-> login, status |-> "sent"]

\* startAuthentication, after the first await: a rejection ends the function;
\* otherwise deviceCode is assigned and the poll is invoked
StartSettled(c) ==
    /\ c \in Pending(startCalls)
    /\ c.status # "sent"
    /\ startCalls' = RemoveCall(startCalls, c)
    /\ IF c.status = "ok"
       THEN /\ deviceCode' = IF LoginOnScreen(c) THEN c.result ELSE deviceCode
            /\ pollCalls' = AddCall(pollCalls, startAuthenticationPoll(Get(c.result), c.login))
       ELSE UNCHANGED <<deviceCode, pollCalls>>
    /\ UNCHANGED <<viewVars, coreVars, issued, authorized, launchCalls, logsCalls, loadCalls,
                   obtainCalls, loginCalls, accountsCalls, loginId,
                   authenticationError, accountInfo, uiVars>>

\* The user completes the web flow for a device code, signed in as u
UserCompletesWebFlow(code, u) ==
    /\ code \in issued
    /\ code \notin DOMAIN authorized
    /\ authorized' = MapSet(authorized, code, u)
    /\ UNCHANGED <<viewVars, coreVars, issued, launchCalls, logsCalls, loadCalls, obtainCalls,
                   startCalls, pollCalls, loginCalls, accountsCalls, loginId,
                   deviceCode, authenticationError, accountInfo, uiVars>>

\* (variant: a failed sign-in signs the active account out)
ServePollClearingActive(c) ==
    /\ c \in Pending(pollCalls)
    /\ c.status = "sent"
    /\ IF c.deviceCode \in DOMAIN authorized
       THEN /\ accounts' = accounts \cup {authorized[c.deviceCode]}
            /\ active_account' = authorized[c.deviceCode]
            /\ tokenFresh' = tokenFresh \cup {authorized[c.deviceCode]}
            /\ refreshOk' = refreshOk \cup {authorized[c.deviceCode]}
            /\ pollCalls' = ReplaceCall(pollCalls, c, [c EXCEPT !.status = "ok"])
       ELSE /\ pollCalls' = ReplaceCall(pollCalls, c,
                                [c EXCEPT !.status = "DeviceCodeExpired"])
            /\ active_account' = Undefined
            /\ UNCHANGED <<accounts, tokenFresh, refreshOk>>
    /\ UNCHANGED <<viewVars, catalog, running, spawned, emitted, eventQ, authErrors, issued,
                   authorized, launchCalls, logsCalls, loadCalls, obtainCalls,
                   startCalls, loginCalls, accountsCalls, loginId, deviceCode,
                   authenticationError, accountInfo, uiVars>>

\* poll_device_code_authentication: on success the account is stored and
\* made active; a code nobody authorized runs out
ServePoll(c) ==
    /\ c \in Pending(pollCalls)
    /\ c.status = "sent"
    /\ IF c.deviceCode \in DOMAIN authorized
       THEN /\ accounts' = accounts \cup {authorized[c.deviceCode]}
            /\ active_account' = authorized[c.deviceCode]
            /\ tokenFresh' = tokenFresh \cup {authorized[c.deviceCode]}
            /\ refreshOk' = refreshOk \cup {authorized[c.deviceCode]}
            /\ pollCalls' = ReplaceCall(pollCalls, c, [c EXCEPT !.status = "ok"])
       ELSE /\ pollCalls' = ReplaceCall(pollCalls, c,
                                [c EXCEPT !.status = "DeviceCodeExpired"])
            /\ UNCHANGED <<accounts, active_account, tokenFresh, refreshOk>>
    /\ UNCHANGED <<viewVars, catalog, running, spawned, emitted, eventQ, authErrors, issued,
                   authorized, launchCalls, logsCalls, loadCalls, obtainCalls,
                   startCalls, loginCalls, accountsCalls, loginId, deviceCode,
                   authenticationError, accountInfo, uiVars>>

\* startAuthentication, after the second await: the catch stores the error,
\* then navigate("/")
PollSettled(c) ==
    /\ c \in Pending(pollCalls)
    /\ c.status # "sent"
    /\ pollCalls' = RemoveCall(pollCalls, c)
    /\ authenticationError' =
            IF c.status # "ok" /\ LoginOnScreen(c) THEN c.status ELSE authenticationError
    /\ IF route # "/"
       THEN /\ route' = "/"
            /\ activeMenuId' = "Instances"
            /\ RetrieveInstances(FALSE)
       ELSE UNCHANGED <<route, activeMenuId, loadCalls>>
    /\ UNCHANGED <<viewVars, coreVars, issued, authorized, launchCalls, logsCalls, obtainCalls,
                   startCalls, loginCalls, accountsCalls, loginId, deviceCode,
                   accountInfo, appVersion, settings, doneHandled, instanceStore,
                   instanceStateStore, logStore, writableMap>>

\* The account list is created: onMount invokes get_accounts
MountAccounts ==
    /\ BagCardinality(accountsCalls) < MaxOpen
    /\ accountInfo' = None
    /\ accountsCalls' = AddCall(accountsCalls, [status |-> "sent", result |-> None])
    /\ UNCHANGED <<viewVars, coreVars, issued, authorized, launchCalls, logsCalls, loadCalls,
                   obtainCalls, startCalls, pollCalls, loginCalls, loginId,
                   deviceCode, authenticationError, uiVars>>

ServeGetAccounts(c) ==
    /\ c \in Pending(accountsCalls)
    /\ c.status = "sent"
    /\ accountsCalls' = ReplaceCall(accountsCalls, c,
                            [status |-> "ok", result |-> Some(GetAccounts)])
    /\ UNCHANGED <<viewVars, coreVars, issued, authorized, launchCalls, logsCalls, loadCalls,
                   obtainCalls, startCalls, pollCalls, loginCalls, loginId,
                   deviceCode, authenticationError, accountInfo, uiVars>>

\* accountInfo = await getAccounts()
AccountsSettled(c) ==
    /\ c \in Pending(accountsCalls)
    /\ c.status = "ok"
    /\ accountsCalls' = RemoveCall(accountsCalls, c)
    /\ accountInfo' = c.result
    /\ UNCHANGED <<viewVars, coreVars, issued, authorized, launchCalls, logsCalls, loadCalls,
                   obtainCalls, startCalls, pollCalls, loginCalls, loginId,
                   deviceCode, authenticationError, uiVars>>

\* (variant: every row carries the mark)
MarkedAll(info) == DOMAIN info.accounts

\* The accounts the list marks as the active one
MarkedActive(info) ==
    { k \in DOMAIN info.accounts : info.active_account = info.accounts[k].uuid }

\* loginToAccount(account.uuid), from a row of the list
loginToAccount(uuid) ==
    /\ accountInfo # None
    /\ uuid \in { Get(accountInfo).accounts[k].uuid : k \in DOMAIN Get(accountInfo).accounts }
    /\ BagCardinality(loginCalls) < MaxOpen
    /\ loginCalls' = AddCall(loginCalls, [uuid |-> uuid, status |-> "sent"])
    /\ UNCHANGED <<viewVars, coreVars, issued, authorized, launchCalls, logsCalls, loadCalls,
                   obtainCalls, startCalls, pollCalls, accountsCalls, loginId,
                   deviceCode, authenticationError, accountInfo, uiVars>>

\* login_to_account: activation of a stored account
ServeLogin(c) ==
    /\ c \in Pending(loginCalls)
    /\ c.status = "sent"
    /\ IF c.uuid \in accounts
       THEN /\ active_account' = c.uuid
            /\ loginCalls' = ReplaceCall(loginCalls, c, [c EXCEPT !.status = "ok"])
       ELSE /\ loginCalls' = ReplaceCall(loginCalls, c, [c EXCEPT !.status = "NotFound"])
            /\ UNCHANGED active_account
    /\ UNCHANGED <<viewVars, catalog, running, spawned, emitted, eventQ, authErrors, accounts,
                   tokenFresh, refreshOk, issued, authorized, launchCalls, logsCalls,
                   loadCalls, obtainCalls, startCalls, pollCalls, accountsCalls,
                   loginId, deviceCode, authenticationError, accountInfo, uiVars>>

\* The promise of login_to_account settles; a rejection is logged
LoginSettled(c) ==
    /\ c \in Pending(loginCalls)
    /\ c.status # "sent"
    /\ loginCalls' = RemoveCall(loginCalls, c)
    /\ UNCHANGED <<viewVars, coreVars, issued, authorized, launchCalls, logsCalls, loadCalls,
                   obtainCalls, startCalls, pollCalls, accountsCalls, loginId,
                   deviceCode, authenticationError, accountInfo, uiVars>>

NextAccounts ==
    \/ switchUser
    \/ StartAuthentication
    \/ \E c \in Pending(startCalls), ok \in BOOLEAN : ServeStart(c, ok)
    \/ \E c \in Pending(startCalls) : StartSettled(c)
    \/ \E code \in issued, u \in Uuids : UserCompletesWebFlow(code, u)
    \/ \E c \in Pending(pollCalls) : ServePoll(c)
    \/ \E c \in Pending(pollCalls) : PollSettled(c)
    \/ MountAccounts
    \/ \E c \in Pending(accountsCalls) : ServeGetAccounts(c)
    \/ \E c \in Pending(accountsCalls) : AccountsSettled(c)
    \/ \E u \in Uuids : loginToAccount(u)
    \/ \E c \in Pending(loginCalls) : ServeLogin(c)
    \/ \E c \in Pending(loginCalls) : LoginSettled(c)

SpecAccounts == Init /\ [][NextAccounts]_vars

\* C8: active_account changes only in a step that serves login_to_account
\* for the uuid that becomes active, or that serves a poll whose device code
\* was authorized by the account that becomes active; and both the answer of
\* get_accounts and the account list on screen mark at most one account active.
C8_ActivationOnly ==
    [][/\ active_account' # active_account =>
            \/ \E c \in Pending(loginCalls) :
                    /\ Served(c, loginCalls, loginCalls')
                    /\ c.uuid \in accounts
                    /\ c.uuid = active_account'
            \/ \E p \in Pending(pollCalls) :
                    /\ Served(p, pollCalls, pollCalls')
                    /\ p.deviceCode \in DOMAIN authorized
                    /\ authorized[p.deviceCode] = active_account'
       /\ Cardinality(MarkedActive(GetAccounts')) <= 1
       /\ accountInfo' # None => Cardinality(MarkedActive(Get(accountInfo'))) <= 1
      ]_vars

\* A sign-in made the second account active, the list showed it so among two
\* accounts, and login_to_account then made the first account active again
C8_Witness ==
    /\ accountInfo # None
    /\ Cardinality(DOMAIN Get(accountInfo).accounts) = 2
    /\ MarkedActive(Get(accountInfo)) = {"u2"}
    /\ active_account = "u1"
    /\ \E c \in Pending(loginCalls) : c.status = "ok" /\ c.uuid = "u1"

\* C9: a poll is invoked only in the step that continues a resolved
\* start_authentication_flow call, with the device code that call returned;
\* and when a poll is served with success, the account that authorized its
\* device code is in the answer of get_accounts and is its active_account.
C9_PollAfterStartWithItsCode ==
    [][/\ \A p \in Pending(pollCalls') :
            (p.status = "sent" /\ CopiesIn(p, pollCalls') > CopiesIn(p, pollCalls)) =>
                \E c \in Pending(startCalls) :
                    /\ Continued(c, startCalls, startCalls')
                    /\ c.status = "ok"
                    /\ p.deviceCode = Get(c.result).device_code
                    /\ p.deviceCode \in issued
       /\ \A p \in Pending(pollCalls) :
            (/\ Served(p, pollCalls, pollCalls')
             /\ CopiesIn([p EXCEPT !.status = "ok"], pollCalls')
                   > CopiesIn([p EXCEPT !.status = "ok"], pollCalls)) =>
                /\ p.deviceCode \in DOMAIN authorized
                /\ authorized[p.deviceCode] \in DOMAIN GetAccounts'.accounts
                /\ GetAccounts'.active_account = authorized[p.deviceCode]
      ]_vars

\* A poll with the issued device code succeeded for a new account
C9_Witness ==
    /\ \E p \in Pending(pollCalls) : p.status = "ok" /\ p.deviceCode = DeviceCodeOf(1)
    /\ accounts = {"u1", "u2"}
    /\ active_account = "u2"

\* C19: when the promise of poll_device_code_authentication rejects while
\* the sign-in view that started it is on screen, the view stays: the route
\* is still "/login" and the error is stored for display.
C19_PollFailureStaysOnLogin ==
    [][\A c \in Pending(pollCalls) :
          (/\ c.status \notin {"sent", "ok"}
           /\ LoginOnScreen(c)
           /\ pollCalls' = RemoveCall(pollCalls, c))
          => (route' = "/login" /\ authenticationError' = c.status)]_vars

----------------------------------------------------------------------------
\* The Logs view over the log store (Logs.svelte)

isError(line) == Includes(line, "/ERROR]:")

isWarning(line) == Includes(line, "/WARN]:")

\* (variant: the warning test comes first)
getClassWarningFirst(line) ==
    IF isWarning(line) THEN "warn"
    ELSE IF isError(line) THEN "error"
    ELSE ""

getClassForLine(line) ==
    IF isError(line) THEN "error"
    ELSE IF isWarning(line) THEN "warn"
    ELSE ""

\* {#each logs as line} <li class={getClassForLine(line)}>{line}</li>
Rendered(shown) ==
    [k \in 1..Len(shown) |-> [class |-> getClassForLine(shown[k]), text |-> shown[k]]]

\* updateLogs
updateLogs(store, instance, log) == store[Get(instance)][Get(log)]

\* The callback given to logStore.subscribe, run at every change of the
\* store; keys().next() is the first key, in an order that is not modelled
LogsSubscriber(store) ==
    /\ IF selectedInstance = None
       THEN \E n \in DOMAIN store : selectedInstance' = Some(n)
       ELSE UNCHANGED selectedInstance
    /\ IF selectedLog = None
       THEN \E k \in DOMAIN store[Get(selectedInstance')] : selectedLog' = Some(k)
       ELSE UNCHANGED selectedLog
    /\ logs' = updateLogs(store, selectedInstance', selectedLog')

\* An instance-logging event is dispatched while the Logs view is open
DeliverLogs(n) ==
    /\ activeMenuId = "Logs"
    /\ DeliverEvent(n)
    /\ LogsSubscriber(logStore')
    /\ UNCHANGED otherViewVars

\* The instance dropdown: $: if (selectedInstance) resetSelectedLog(), then
\* $: if (selectedLog) updateLogs()
SelectInstance(n) ==
    /\ activeMenuId = "Logs"
    /\ n \in DOMAIN logStore
    /\ Some(n) # selectedInstance
    /\ selectedInstance' = Some(n)
    /\ \E k \in DOMAIN logStore[n] : selectedLog' = Some(k)
    /\ logs' = updateLogs(logStore, selectedInstance', selectedLog')
    /\ UNCHANGED <<coreVars, launchCalls, logsCalls, loadCalls, obtainCalls, authVars,
                   uiVars, otherViewVars>>

\* The log dropdown: $: if (selectedLog) updateLogs()
SelectLog(k) ==
    /\ activeMenuId = "Logs"
    /\ selectedInstance # None
    /\ k \in DOMAIN logStore[Get(selectedInstance)]
    /\ Some(k) # selectedLog
    /\ selectedLog' = Some(k)
    /\ logs' = updateLogs(logStore, selectedInstance, selectedLog')
    /\ UNCHANGED <<coreVars, launchCalls, logsCalls, loadCalls, obtainCalls, authVars,
                   uiVars, selectedInstance, otherViewVars>>

\* The Logs view has been opened while T runs; its subscription has run once
InitLogView ==
    /\ catalog = {TestConfig, OtherConfig}
    /\ running = [n \in Names |-> n = TestName]
    /\ spawned = [n \in Names |-> IF n = TestName THEN 1 ELSE 0]
    /\ emitted = [n \in Names |-> <<>>]
    /\ eventQ = [n \in Names |-> <<>>]
    /\ authErrors = <<>>
    /\ accounts = {"u1"}
    /\ active_account = "u1"
    /\ tokenFresh = {"u1"}
    /\ refreshOk = {"u1"}
    /\ launchCalls = NoCalls
    /\ loadCalls = NoCalls
    /\ obtainCalls = NoCalls
    /\ logsCalls = NoCalls
    /\ appVersion = "setup"
    /\ route = "/"
    /\ activeMenuId = "Logs"
    /\ settings = None
    /\ doneHandled = {}
    /\ instanceStore = SetToSortedSeq(catalog)
    /\ instanceStateStore = (TestName :> Initializing)
    /\ logStore = [n \in CatalogNames |-> (RotatedKey(0) :> <<LinePlain, LineError>>)]
    /\ writableMap = EmptyMap
    /\ issued = {}
    /\ authorized = EmptyMap
    /\ startCalls = NoCalls
    /\ pollCalls = NoCalls
    /\ loginCalls = NoCalls
    /\ accountsCalls = NoCalls
    /\ loginId = 0
    /\ deviceCode = None
    /\ authenticationError = Undefined
    /\ accountInfo = None
    /\ selectedInstance \in { Some(n) : n \in CatalogNames }
    /\ selectedLog = Some(RotatedKey(0))
    /\ logs = updateLogs(logStore, selectedInstance, selectedLog)
    /\ OtherViewsIdle

NextLogView ==
    \/ \E n \in Names, line \in LogLines : EmitLine(n, line)
    \/ \E n \in Names : DeliverLogs(n)
    \/ \E n \in Names : SelectInstance(n)
    \/ \E k \in {RunningKey, RotatedKey(0)} : SelectLog(k)

SpecLogView == InitLogView /\ [][NextLogView]_vars

\* C12: the Logs view shows every line of the selected log, in order, each
\* with class "error" if it contains "/ERROR]:", else "warn" if it contains
\* "/WARN]:", else with no class.
C12_LinesClassifiedNotDropped ==
    LET stored == logStore[Get(selectedInstance)][Get(selectedLog)]
    IN  /\ Len(Rendered(logs)) = Len(stored)
        /\ \A k \in 1..Len(stored) :
              /\ Rendered(logs)[k].text = stored[k]
              /\ Rendered(logs)[k].class = "error" <=> Includes(stored[k], "/ERROR]:")
              /\ Rendered(logs)[k].class = "warn" <=>
                    (Includes(stored[k], "/WARN]:") /\ ~Includes(stored[k], "/ERROR]:"))
              /\ Rendered(logs)[k].class = "" <=>
                    (~Includes(stored[k], "/WARN]:") /\ ~Includes(stored[k], "/ERROR]:"))

\* The running log is shown with a warning line and a line that has both tags
C12_Witness ==
    /\ selectedLog = Some(RunningKey)
    /\ logs = <<LineWarn, LineWarnThenError>>
    /\ Rendered(logs)[1].class = "warn"
    /\ Rendered(logs)[2].class = "error"

----------------------------------------------------------------------------
\* The version page of the creation flow (NewInstanceVersion.svelte with
\* VanillaContent.svelte) and the manifest store (manifeststore.ts).  The
\* App.svelte builds with onMount() route the page as "/new-instance".

\* retrieveManifests, after the await: the Forge lists are reversed
ManifestOfPage(result) ==
    [result EXCEPT !.forge_versions = [v \in DOMAIN @ |-> Reverse(@[v])]]

\* VanillaContent: the defaults of its outputs, and onMount of the page, which
\* restores what $location.state holds
PageSelections(manifest, state) ==
    IF state = None
    THEN [vanillaVersion |-> manifest.vanilla_versions[1],
          modloaderVersion |-> <<>>,
          modloaderType |-> "None"]
    ELSE Get(state)

\* retrieveManifests: whether obtain_manifests is invoked
retrieveManifests(store) == store = None

\* The version page is created with `state` as $location.state, and
\* {#await retrieveManifests()} runs
VersionPageCreated(state) ==
    /\ route' = "/newinstance-version"
    /\ locationState' = state
    /\ IF retrieveManifests(manifestStore)
       THEN /\ manifestCalls' = AddCall(manifestCalls,
                                    [origin |-> "page", status |-> "sent", result |-> None])
            /\ manifestRequests' = manifestRequests + 1
            /\ manifestShown' = FALSE
            /\ versionPage' = None
       ELSE /\ manifestShown' = TRUE
            /\ versionPage' = Some(PageSelections(Get(manifestStore), state))
            /\ UNCHANGED <<manifestCalls, manifestRequests>>
    /\ UNCHANGED <<manifestStore, prefetch>>

\* Instances.svelte newInstance(): navigate("/newinstance-version")
openVersionPage ==
    /\ InstancesMounted
    /\ VersionPageCreated(None)
    /\ UNCHANGED <<lateVars, logViewVars, downloadVars, resolverVars, shotVars, terminalVars, coreVars, launchCalls, logsCalls, loadCalls, obtainCalls,
                   authVars, appVersion, activeMenuId, settings, doneHandled,
                   instanceStore, instanceStateStore, logStore, writableMap>>

\* App.svelte onMount reaches `$manifestStore = await invoke("obtain_manifests")`
AppPrefetch ==
    /\ prefetch = "pending"
    /\ prefetch' = "sent"
    /\ manifestCalls' = AddCall(manifestCalls,
                            [origin |-> "app", status |-> "sent", result |-> None])
    /\ manifestRequests' = manifestRequests + 1
    /\ UNCHANGED <<lateVars, logViewVars, downloadVars, resolverVars, shotVars, terminalVars, coreVars, launchCalls, logsCalls, loadCalls, obtainCalls,
                   authVars, uiVars, manifestStore, versionPage, manifestShown,
                   locationState>>

\* obtain_manifests returns the manifests
ServeManifests(c) ==
    /\ c \in Pending(manifestCalls)
    /\ c.status = "sent"
    /\ manifestCalls' = ReplaceCall(manifestCalls, c,
                            [c EXCEPT !.status = "ok", !.result = Some(ObtainManifests)])
    /\ UNCHANGED <<lateVars, logViewVars, downloadVars, resolverVars, shotVars, terminalVars, coreVars, launchCalls, logsCalls, loadCalls, obtainCalls,
                   authVars, uiVars, manifestStore, manifestRequests, prefetch,
                   versionPage, manifestShown, locationState>>

\* The promise of obtain_manifests resolves: the store is assigned; for the
\* page's call the {:then} branch is rendered and VanillaContent is created
ManifestsSettled(c) ==
    /\ c \in Pending(manifestCalls)
    /\ c.status = "ok"
    /\ manifestCalls' = RemoveCall(manifestCalls, c)
    /\ IF c.origin = "page"
       THEN /\ manifestStore' = Some(ManifestOfPage(Get(c.result)))
            /\ manifestShown' = TRUE
            /\ versionPage' = Some(PageSelections(Get(manifestStore'), locationState))
       ELSE /\ manifestStore' = c.result
            /\ UNCHANGED <<manifestShown, versionPage>>
    /\ UNCHANGED <<lateVars, logViewVars, downloadVars, resolverVars, shotVars, terminalVars, coreVars, launchCalls, logsCalls, loadCalls, obtainCalls,
                   authVars, uiVars, manifestRequests, prefetch, locationState>>

\* The page is shown and its inputs can be used
VersionPageShown == route = "/newinstance-version" /\ manifestShown

PageUnchanged ==
    UNCHANGED <<lateVars, logViewVars, downloadVars, resolverVars, shotVars, terminalVars, coreVars, launchCalls, logsCalls, loadCalls, obtainCalls,
                authVars, uiVars, manifestStore, manifestCalls, manifestRequests,
                prefetch, manifestShown, locationState>>

\* VanillaContent setSelectedVanillaVersion
setSelectedVanillaVersion(v) ==
    /\ VersionPageShown
    /\ versionPage' = Some([Get(versionPage) EXCEPT !.vanillaVersion = v])
    /\ PageUnchanged

\* VanillaContent: filteredForgeVersions
filteredForgeVersions(manifest, v) ==
    IF v \in DOMAIN manifest.forge_versions THEN manifest.forge_versions[v] ELSE <<>>

\* VanillaContent setModloaderType
setModloaderType(manifest, page, type) ==
    [page EXCEPT !.modloaderType = type,
                 !.modloaderVersion =
                     IF type = "Fabric" THEN manifest.fabric_versions[1]
                     ELSE IF type = "Forge"
                          THEN filteredForgeVersions(manifest, page.vanillaVersion)[1]
                     ELSE @]

\* One of the modloader tabs is clicked
ClickModloaderType(type) ==
    /\ VersionPageShown
    /\ versionPage' = Some(setModloaderType(Get(manifestStore), Get(versionPage), type))
    /\ PageUnchanged

\* NewInstanceVersion next(): the settings page is created with the page's
\* selections as $location.state, and `$: generateInstanceName` runs
nextWithSelections ==
    /\ VersionPageShown
    /\ route' = "/newinstance-settings"
    /\ locationState' = versionPage
    /\ settings' = Some([settingsInit(Get(versionPage)) EXCEPT
                            !.instanceName = generateInstanceName(Get(versionPage))])
    /\ versionPage' = None
    /\ manifestShown' = FALSE
    /\ UNCHANGED <<lateVars, logViewVars, downloadVars, resolverVars, shotVars, terminalVars, coreVars, launchCalls, logsCalls, loadCalls, obtainCalls,
                   authVars, appVersion, activeMenuId, doneHandled, instanceStore,
                   instanceStateStore, logStore, writableMap, manifestStore,
                   manifestCalls, manifestRequests, prefetch>>

\* NewInstanceSettings back(): the version page is created again with the
\* state it was left with
backToVersionPage ==
    /\ route = "/newinstance-settings"
    /\ settings' = None
    /\ VersionPageCreated(locationState)
    /\ UNCHANGED <<lateVars, logViewVars, downloadVars, resolverVars, shotVars, terminalVars, coreVars, launchCalls, logsCalls, loadCalls, obtainCalls,
                   authVars, appVersion, activeMenuId, doneHandled, instanceStore,
                   instanceStateStore, logStore, writableMap>>

\* The name field of the settings page: bind:disabled={hasConflict}
nameDisabled(store, s) == hasConflict(store, s)

\* The names the user types into the name field: that of an existing
\* instance and a fresh one
TypedNames == {TestName, generateInstanceName(VanillaState(<<"1", ".", "1", "0">>))}

\* The user edits the instance name: bind:value={settings.instanceName}
setInstanceName(name) ==
    /\ route = "/newinstance-settings"
    /\ ~nameDisabled(instanceStore, Get(settings))
    /\ name # Get(settings).instanceName
    /\ settings' = Some([Get(settings) EXCEPT !.instanceName = name])
    /\ UNCHANGED <<viewVars, coreVars, launchCalls, logsCalls, loadCalls, obtainCalls,
                   authVars, appVersion, route, activeMenuId, doneHandled,
                   instanceStore, instanceStateStore, logStore, writableMap>>

\* The launcher has started and the Instances view is shown; under onMount()
\* the build may have the obtain_manifests statement still ahead
InitPages ==
    /\ catalog = {TestConfig}
    /\ running = [n \in Names |-> FALSE]
    /\ spawned = [n \in Names |-> 0]
    /\ emitted = [n \in Names |-> <<>>]
    /\ eventQ = [n \in Names |-> <<>>]
    /\ authErrors = <<>>
    /\ accounts = {"u1"}
    /\ active_account = "u1"
    /\ tokenFresh = {"u1"}
    /\ refreshOk = {"u1"}
    /\ launchCalls = NoCalls
    /\ loadCalls = NoCalls
    /\ obtainCalls = NoCalls
    /\ logsCalls = NoCalls
    /\ appVersion \in {"setup", "onMount"}
    /\ route = "/"
    /\ activeMenuId = "Instances"
    /\ settings = None
    /\ doneHandled = {}
    /\ instanceStore = SetToSortedSeq(catalog)
    /\ instanceStateStore = EmptyMap
    /\ logStore = IF appVersion = "setup" THEN StartupLogs(catalog) ELSE EmptyMap
    /\ writableMap = EmptyMap
    /\ issued = {}
    /\ authorized = EmptyMap
    /\ startCalls = NoCalls
    /\ pollCalls = NoCalls
    /\ loginCalls = NoCalls
    /\ accountsCalls = NoCalls
    /\ loginId = 0
    /\ deviceCode = None
    /\ authenticationError = Undefined
    /\ accountInfo = None
    /\ selectedInstance = None
    /\ selectedLog = None
    /\ logs = <<>>
    /\ ManifestsStarted({"none", "pending"})
    /\ PagesIdle
    /\ ExecutorIdle([d \in Destinations |-> "good"])
    /\ ResolverIdle
    /\ ShotsStarted([n \in Names |-> {}])
    /\ TerminalIdle
    /\ LateIdle

NextPages ==
    \/ openVersionPage
    \/ AppPrefetch
    \/ \E c \in Pending(manifestCalls) : ServeManifests(c)
    \/ \E c \in Pending(manifestCalls) : ManifestsSettled(c)
    \/ \E v \in Versions : setSelectedVanillaVersion(v)
    \/ \E type \in {"None", "Fabric", "Forge"} : ClickModloaderType(type)
    \/ nextWithSelections
    \/ backToVersionPage
    \/ \E name \in TypedNames : setInstanceName(name)
    \/ finish

SpecPages == InitPages /\ [][NextPages]_vars

C23_ConflictingNameEditable ==
    (route = "/newinstance-settings" /\ hasConflict(instanceStore, Get(settings)))
        => ~nameDisabled(instanceStore, Get(settings))

\* C24: while the version page is shown, a Forge selection is one of the
\* Forge versions of the selected vanilla version and a Fabric selection is
\* one of the Fabric versions.
C24_ModloaderVersionOfSelectedVanilla ==
    (VersionPageShown /\ versionPage # None) =>
        LET page == Get(versionPage)
            manifest == Get(manifestStore)
            forge == filteredForgeVersions(manifest, page.vanillaVersion)
        IN  /\ page.modloaderType = "Forge" =>
                   \E i \in DOMAIN forge : forge[i] = page.modloaderVersion
            /\ page.modloaderType = "Fabric" =>
                   \E i \in DOMAIN manifest.fabric_versions :
                       manifest.fabric_versions[i] = page.modloaderVersion

\* C16: every obtain_version call whose settings name neither Fabric nor Forge
\* carries modloaderType "None" and an empty modloaderVersion.
C16_NoModloaderSentAsNone ==
    \A c \in Pending(obtainCalls) :
        c.settings.modloaderType \notin { <<"Fabric">>, <<"Forge">> } =>
            /\ c.settings.modloaderType = <<"None">>
            /\ c.settings.modloaderVersion = <<>>

----------------------------------------------------------------------------
\* The Download Planner/Executor over the files of one ResolvedProfile

\* attempts of one task: the first and the retries after 1s, 2s, 4s
MaxAttempts == 4

\* expected_sha1 of the file of a destination, if the profile knows one; a
\* file's content is "good" when its hash is the expected one
ExpectedSha1(d) == IF d = "logging" THEN None ELSE Some("good")

\* Verification of a file against the profile: a known hash must match
Verified(files, d) == ExpectedSha1(d) # None => files[d] \in ExpectedSha1(d)

\* Planning: libraries missing or failing verification, the client jar and
\* the logging configuration; one task per destination
Planned(files, d) ==
    IF d = "library" THEN files[d] = "absent" \/ ~Verified(files, d)
    ELSE TRUE

\* (variant: no task is skipped)
SkipNothing(files, d) == FALSE

\* Execution, step 1: the destination exists and its hash matches
Skip(files, d) == files[d] # "absent" /\ Verified(files, d)

ExecutorUnchanged ==
    UNCHANGED <<lateVars, logViewVars, pageVars, resolverVars, shotVars, terminalVars, coreVars,
                launchCalls, logsCalls, loadCalls, obtainCalls, authVars, uiVars>>

RunOver(r) == IF r = 0 THEN TRUE ELSE dlResult[r] \in {"success", "failed"}

\* The executor is run on the profile: the tasks are planned
StartRun ==
    /\ dlRun + 1 \in ExecutorRuns
    /\ RunOver(dlRun)
    /\ dlRun' = dlRun + 1
    /\ dlResult' = [dlResult EXCEPT ![dlRun + 1] = "running"]
    /\ tasks' = [d \in Destinations |-> IF Planned(disk, d) THEN "planned" ELSE "none"]
    /\ attempts' = [d \in Destinations |-> 0]
    /\ UNCHANGED <<disk, netRequests>>
    /\ ExecutorUnchanged

\* A permit is taken for a task: it is skipped or its download is requested
TakeTask(d) ==
    /\ tasks[d] = "planned"
    /\ IF Skip(disk, d)
       THEN /\ tasks' = [tasks EXCEPT ![d] = "skipped"]
            /\ UNCHANGED <<attempts, netRequests>>
       ELSE /\ tasks' = [tasks EXCEPT ![d] = "fetching"]
            /\ attempts' = [attempts EXCEPT ![d] = 1]
            /\ netRequests' = [netRequests EXCEPT ![dlRun] = @ + 1]
    /\ UNCHANGED <<disk, dlRun, dlResult>>
    /\ ExecutorUnchanged

\* The download has streamed `content` into the temporary file: on a hash
\* mismatch the task fails and the destination is left alone, otherwise the
\* temporary file is renamed to the destination
DownloadStreamed(d, content) ==
    /\ tasks[d] = "fetching"
    /\ IF Verified([disk EXCEPT ![d] = content], d)
       THEN /\ disk' = [disk EXCEPT ![d] = content]
            /\ tasks' = [tasks EXCEPT ![d] = "done"]
       ELSE /\ tasks' = [tasks EXCEPT ![d] = "failed"]
            /\ UNCHANGED disk
    /\ UNCHANGED <<attempts, dlRun, dlResult, netRequests>>
    /\ ExecutorUnchanged

\* The download fails: a transient failure is retried while attempts remain,
\* a 4xx answer is terminal
DownloadFails(d, transient) ==
    /\ tasks[d] = "fetching"
    /\ IF transient /\ attempts[d] < MaxAttempts
       THEN /\ attempts' = [attempts EXCEPT ![d] = @ + 1]
            /\ netRequests' = [netRequests EXCEPT ![dlRun] = @ + 1]
            /\ UNCHANGED tasks
       ELSE /\ tasks' = [tasks EXCEPT ![d] = "failed"]
            /\ UNCHANGED <<attempts, netRequests>>
    /\ UNCHANGED <<disk, dlRun, dlResult>>
    /\ ExecutorUnchanged

\* Every task is over: the executor returns
RunReturns ==
    /\ dlRun \in ExecutorRuns
    /\ dlResult[dlRun] = "running"
    /\ \A d \in Destinations : tasks[d] \notin {"planned", "fetching"}
    /\ dlResult' = [dlResult EXCEPT ![dlRun] =
                        IF \E d \in Destinations : tasks[d] = "failed"
                        THEN "failed" ELSE "success"]
    /\ UNCHANGED <<disk, tasks, attempts, dlRun, netRequests>>
    /\ ExecutorUnchanged

\* The launcher has started; the files of the profile are in any state
InitDownload ==
    /\ catalog = {TestConfig}
    /\ running = [n \in Names |-> FALSE]
    /\ spawned = [n \in Names |-> 0]
    /\ emitted = [n \in Names |-> <<>>]
    /\ eventQ = [n \in Names |-> <<>>]
    /\ authErrors = <<>>
    /\ accounts = {"u1"}
    /\ active_account = "u1"
    /\ tokenFresh = {"u1"}
    /\ refreshOk = {"u1"}
    /\ launchCalls = NoCalls
    /\ loadCalls = NoCalls
    /\ obtainCalls = NoCalls
    /\ logsCalls = NoCalls
    /\ appVersion = "setup"
    /\ route = "/"
    /\ activeMenuId = "Instances"
    /\ settings = None
    /\ doneHandled = {}
    /\ instanceStore = SetToSortedSeq(catalog)
    /\ instanceStateStore = EmptyMap
    /\ logStore = IF appVersion = "setup" THEN StartupLogs(catalog) ELSE EmptyMap
    /\ writableMap = EmptyMap
    /\ issued = {}
    /\ authorized = EmptyMap
    /\ startCalls = NoCalls
    /\ pollCalls = NoCalls
    /\ loginCalls = NoCalls
    /\ accountsCalls = NoCalls
    /\ loginId = 0
    /\ deviceCode = None
    /\ authenticationError = Undefined
    /\ accountInfo = None
    /\ selectedInstance = None
    /\ selectedLog = None
    /\ logs = <<>>
    /\ ManifestsStarted({"none"})
    /\ PagesIdle
    /\ \E files \in [Destinations -> {"absent", "good", "bad"}] : ExecutorIdle(files)
    /\ ResolverIdle
    /\ ShotsStarted([n \in Names |-> {}])
    /\ TerminalIdle
    /\ LateIdle

NextDownload ==
    \/ StartRun
    \/ \E d \in Destinations : TakeTask(d)
    \/ \E d \in Destinations, content \in {"good", "bad"} : DownloadStreamed(d, content)
    \/ \E d \in Destinations, transient \in BOOLEAN : DownloadFails(d, transient)
    \/ RunReturns

SpecDownload == InitDownload /\ [][NextDownload]_vars

----------------------------------------------------------------------------
\* The Manifest Resolver, step 4: rule evaluation

\* rules[] of at most this many rules
MaxRules == 2

OsNames == {"linux", "windows"}

\* A rule: its action, and the os.name it is restricted to, if any
Rules == [action : {"allow", "disallow"}, os : {None} \cup { Some(o) : o \in OsNames }]

RECURSIVE SeqsUpTo(_, _)
SeqsUpTo(S, n) ==
    IF n = 0 THEN { <<>> }
    ELSE LET shorter == SeqsUpTo(S, n - 1)
         IN  shorter \cup { Append(q, x) : q \in { r \in shorter : Len(r) = n - 1 }, x \in S }

\* A rule matches the host if it names no os or the host's; features are
\* always empty at this layer
RuleMatches(rule, h) == rule.os = None \/ rule.os = Some(h)

\* (variant: the first matching rule wins)
RECURSIVE FirstMatchWins(_, _, _)
FirstMatchWins(rules, h, polarity) ==
    IF rules = <<>> THEN polarity
    ELSE IF RuleMatches(Head(rules), h) THEN Head(rules).action
    ELSE FirstMatchWins(Tail(rules), h, polarity)

\* The rules are evaluated in order from a starting polarity; a matching rule
\* sets the polarity
RECURSIVE EvaluateFrom(_, _, _)
EvaluateFrom(rules, h, polarity) ==
    IF rules = <<>> THEN polarity
    ELSE EvaluateFrom(Tail(rules), h,
                      IF RuleMatches(Head(rules), h) THEN Head(rules).action ELSE polarity)

\* (rules, host, features) -> Allow | Deny: an empty list is allow
EvaluateRules(rules, h) ==
    IF rules = <<>> THEN "allow" ELSE EvaluateFrom(rules, h, startPolarity)

\* The next library's rules are evaluated; a disallowed library is discarded
EvaluateLibrary ==
    /\ evaluated < Len(libraries)
    /\ evaluated' = evaluated + 1
    /\ survivors' = IF EvaluateRules(libraries[evaluated + 1], host) = "allow"
                    THEN survivors \cup {evaluated + 1}
                    ELSE survivors
    /\ UNCHANGED <<host, startPolarity, libraries>>
    /\ UNCHANGED <<lateVars, logViewVars, pageVars, downloadVars, shotVars, terminalVars, coreVars,
                   launchCalls, logsCalls, loadCalls, obtainCalls, authVars, uiVars>>

\* A descriptor with two libraries is resolved on some host
InitRules ==
    /\ catalog = {TestConfig}
    /\ running = [n \in Names |-> FALSE]
    /\ spawned = [n \in Names |-> 0]
    /\ emitted = [n \in Names |-> <<>>]
    /\ eventQ = [n \in Names |-> <<>>]
    /\ authErrors = <<>>
    /\ accounts = {"u1"}
    /\ active_account = "u1"
    /\ tokenFresh = {"u1"}
    /\ refreshOk = {"u1"}
    /\ launchCalls = NoCalls
    /\ loadCalls = NoCalls
    /\ obtainCalls = NoCalls
    /\ logsCalls = NoCalls
    /\ appVersion = "setup"
    /\ route = "/"
    /\ activeMenuId = "Instances"
    /\ settings = None
    /\ doneHandled = {}
    /\ instanceStore = SetToSortedSeq(catalog)
    /\ instanceStateStore = EmptyMap
    /\ logStore = IF appVersion = "setup" THEN StartupLogs(catalog) ELSE EmptyMap
    /\ writableMap = EmptyMap
    /\ issued = {}
    /\ authorized = EmptyMap
    /\ startCalls = NoCalls
    /\ pollCalls = NoCalls
    /\ loginCalls = NoCalls
    /\ accountsCalls = NoCalls
    /\ loginId = 0
    /\ deviceCode = None
    /\ authenticationError = Undefined
    /\ accountInfo = None
    /\ selectedInstance = None
    /\ selectedLog = None
    /\ logs = <<>>
    /\ ManifestsStarted({"none"})
    /\ PagesIdle
    /\ ExecutorIdle([d \in Destinations |-> "good"])
    /\ ShotsStarted([n \in Names |-> {}])
    /\ TerminalIdle
    /\ LateIdle
    /\ host \in OsNames
    /\ startPolarity \in {"allow", "disallow"}
    /\ libraries \in [1..2 -> SeqsUpTo(Rules, MaxRules)]
    /\ evaluated = 0
    /\ survivors = {}

NextRules == EvaluateLibrary

SpecRules == InitRules /\ [][NextRules]_vars

\* The last rule of a list that matches the host, if any
LastMatch(rules, h) ==
    LET matching == { k \in 1..Len(rules) : RuleMatches(rules[k], h) }
    IN  IF matching = {} THEN None
        ELSE Some(rules[CHOOSE k \in matching : \A j \in matching : j <= k])

\* C15: an evaluated library survives exactly if its rule list is empty, or
\* the last rule matching the host allows, or no rule matches and the starting
\* polarity allows; re-evaluating a survivor's rules on the same host gives
\* allow and a discarded library's rules give disallow.
C15_LastMatchWins ==
    \A i \in 1..evaluated :
        LET rules == libraries[i]
            last == LastMatch(rules, host)
            allowed == \/ rules = <<>>
                       \/ last # None /\ Get(last).action = "allow"
                       \/ rules # <<>> /\ last = None /\ startPolarity = "allow"
        IN  /\ i \in survivors <=> allowed
            /\ i \in survivors => EvaluateRules(rules, host) = "allow"
            /\ i \notin survivors => EvaluateRules(rules, host) = "disallow"

\* A library with an empty list and one whose allow for the host is followed
\* by a matching disallow have been evaluated: the first survives, the second
\* is discarded
C15_Witness ==
    /\ evaluated = 2
    /\ libraries[1] = <<>>
    /\ libraries[2] = << [action |-> "allow", os |-> Some(host)],
                         [action |-> "disallow", os |-> None] >>
    /\ survivors = {1}

----------------------------------------------------------------------------
\* The Screenshots view (Screenshots.svelte) over the screenshot store

\* (variant: the list is sorted and not reversed)
sortedAscending(value) == SortShots(value, TRUE)

\* getScreenshots: value.sort(localeCompare numeric); value.reverse()
sortedAndReversed(value) == Reverse(SortShots(value, TRUE))

\* getScreenshots, after the await: every entry of the answer is sorted,
\* reversed and set in the store
getScreenshotsStore(store, result) ==
    [key \in (DOMAIN store) \cup (DOMAIN result) |->
        IF key \in DOMAIN result THEN sortedAndReversed(result[key]) ELSE store[key]]

ShotsUnchanged ==
    UNCHANGED <<lateVars, logViewVars, pageVars, downloadVars, resolverVars, terminalVars, coreVars,
                launchCalls, logsCalls, loadCalls, obtainCalls, authVars, uiVars>>

\* The game of an instance writes a screenshot
TakeScreenshot(n, name) ==
    /\ n \in CatalogNames
    /\ name \notin shots[n]
    /\ shots' = [shots EXCEPT ![n] = @ \cup {name}]
    /\ UNCHANGED <<shotCalls, screenshotStore>>
    /\ ShotsUnchanged

\* The Screenshots view is created: {#await getScreenshots()}
getScreenshots ==
    /\ BagCardinality(shotCalls) < MaxCalls
    /\ shotCalls' = AddCall(shotCalls, [status |-> "sent", result |-> EmptyMap])
    /\ UNCHANGED <<shots, screenshotStore>>
    /\ ShotsUnchanged

ServeGetScreenshots(c) ==
    /\ c \in Pending(shotCalls)
    /\ c.status = "sent"
    /\ shotCalls' = ReplaceCall(shotCalls, c,
                        [status |-> "ok", result |-> GetScreenshots(shots)])
    /\ UNCHANGED <<shots, screenshotStore>>
    /\ ShotsUnchanged

ScreenshotsSettled(c) ==
    /\ c \in Pending(shotCalls)
    /\ c.status = "ok"
    /\ shotCalls' = RemoveCall(shotCalls, c)
    /\ screenshotStore' = getScreenshotsStore(screenshotStore, c.result)
    /\ UNCHANGED shots
    /\ ShotsUnchanged

\* The launcher has started, under either App.svelte, with any screenshots
InitShots ==
    /\ catalog = {TestConfig}
    /\ running = [n \in Names |-> FALSE]
    /\ spawned = [n \in Names |-> 0]
    /\ emitted = [n \in Names |-> <<>>]
    /\ eventQ = [n \in Names |-> <<>>]
    /\ authErrors = <<>>
    /\ accounts = {"u1"}
    /\ active_account = "u1"
    /\ tokenFresh = {"u1"}
    /\ refreshOk = {"u1"}
    /\ launchCalls = NoCalls
    /\ loadCalls = NoCalls
    /\ obtainCalls = NoCalls
    /\ logsCalls = NoCalls
    /\ appVersion \in {"setup", "onMount"}
    /\ route = "/"
    /\ activeMenuId = "Instances"
    /\ settings = None
    /\ doneHandled = {}
    /\ instanceStore = SetToSortedSeq(catalog)
    /\ instanceStateStore = EmptyMap
    /\ logStore = IF appVersion \in {"setup", "onMount"} THEN StartupLogs(catalog) ELSE EmptyMap
    /\ writableMap = EmptyMap
    /\ issued = {}
    /\ authorized = EmptyMap
    /\ startCalls = NoCalls
    /\ pollCalls = NoCalls
    /\ loginCalls = NoCalls
    /\ accountsCalls = NoCalls
    /\ loginId = 0
    /\ deviceCode = None
    /\ authenticationError = Undefined
    /\ accountInfo = None
    /\ selectedInstance = None
    /\ selectedLog = None
    /\ logs = <<>>
    /\ ManifestsStarted({"none"})
    /\ PagesIdle
    /\ ExecutorIdle([d \in Destinations |-> "good"])
    /\ ResolverIdle
    /\ TerminalIdle
    /\ LateIdle
    /\ \E files \in [Names -> SUBSET ShotNames] :
          /\ \A n \in Names \ CatalogNames : files[n] = {}
          /\ ShotsStarted(files)

NextShots ==
    \/ \E n \in Names, name \in ShotNames : TakeScreenshot(n, name)
    \/ getScreenshots
    \/ \E c \in Pending(shotCalls) : ServeGetScreenshots(c)
    \/ \E c \in Pending(shotCalls) : ScreenshotsSettled(c)

SpecShots == InitShots /\ [][NextShots]_vars

\* The hour and minute a screenshot's file name starts with
TimeOf(name) == DigitsValue(SubSeq(name, 1, 2) \o SubSeq(name, 4, 5), 0)

----------------------------------------------------------------------------
\* The Logs view that writes the lines of read_log_lines to a terminal

LogFilters == { <<>>, <<"Loading">>, <<".">> }

\* The sealed log files of an instance
SealedLogs == { RotatedKey(0), RotatedKey(1) }

LogFile(log) ==
    IF log = RotatedKey(0) THEN <<LinePlain, LineError>>
    ELSE <<LineWarn, LinePlain, LineWarnThenError>>

\* read_log_lines: the lines of the file in order, classified as the
\* supervisor classifies them
ReadLogLines(name, log) ==
    [k \in 1..Len(LogFile(log)) |->
        [line |-> LogFile(log)[k],
         lineType |-> IF Includes(LogFile(log)[k], "/ERROR]:") THEN "error"
                      ELSE IF Includes(LogFile(log)[k], "/WARN]:") THEN "warning"
                      ELSE ""]]

\* writeLines: what terminal.writeln is given, as colour and text
writeLines(lines) ==
    [k \in 1..Len(lines) |->
        [tag |-> CASE lines[k].lineType = "error" -> "red"
                   [] lines[k].lineType = "warning" -> "yellow"
                   [] OTHER -> "",
         text |-> lines[k].line]]

\* retrieveLogLines, from the filter on: terminal.clear(); writeLines(lines)
retrieveLogLinesWritten(lines, useRegex, filter) ==
    IF filter # <<>>
    THEN IF useRegex
         THEN LET keep(line) == Matches(line.line, filter)
              IN  writeLines(SelectSeq(lines, keep))
         ELSE LET keep(line) == Includes(line.line, filter[1])
              IN  writeLines(SelectSeq(lines, keep))
    ELSE writeLines(lines)

Selections ==
    [instance : {TestName}, log : SealedLogs, filter : LogFilters, useRegex : BOOLEAN]

TerminalUnchanged ==
    UNCHANGED <<lateVars, logViewVars, pageVars, downloadVars, resolverVars, shotVars, coreVars,
                launchCalls, logsCalls, loadCalls, obtainCalls, authVars, uiVars>>

\* LogsHeader changes a bound value: {#await retrieveLogLines(...)} runs
\* again and read_log_lines is invoked
retrieveLogLines(sel) ==
    /\ activeMenuId = "Logs"
    /\ termSelection # Some(sel)
    /\ BagCardinality(readCalls) < MaxCalls
    /\ termSelection' = Some(sel)
    /\ readCalls' = AddCall(readCalls, [sel |-> sel, status |-> "sent", result |-> <<>>])
    /\ UNCHANGED terminal
    /\ TerminalUnchanged

ServeReadLogLines(c) ==
    /\ c \in Pending(readCalls)
    /\ c.status = "sent"
    /\ readCalls' = ReplaceCall(readCalls, c,
                        [c EXCEPT !.status = "ok",
                                  !.result = ReadLogLines(c.sel.instance, c.sel.log)])
    /\ UNCHANGED <<termSelection, terminal>>
    /\ TerminalUnchanged

\* retrieveLogLines, after the await
ReadSettled(c) ==
    /\ c \in Pending(readCalls)
    /\ c.status = "ok"
    /\ readCalls' = RemoveCall(readCalls, c)
    /\ terminal' = retrieveLogLinesWritten(c.result, c.sel.useRegex, c.sel.filter)
    /\ UNCHANGED termSelection
    /\ TerminalUnchanged

\* The Logs view is open with nothing selected yet
InitTerminal ==
    /\ catalog = {TestConfig}
    /\ running = [n \in Names |-> FALSE]
    /\ spawned = [n \in Names |-> 0]
    /\ emitted = [n \in Names |-> <<>>]
    /\ eventQ = [n \in Names |-> <<>>]
    /\ authErrors = <<>>
    /\ accounts = {"u1"}
    /\ active_account = "u1"
    /\ tokenFresh = {"u1"}
    /\ refreshOk = {"u1"}
    /\ launchCalls = NoCalls
    /\ loadCalls = NoCalls
    /\ obtainCalls = NoCalls
    /\ logsCalls = NoCalls
    /\ appVersion = "setup"
    /\ route = "/"
    /\ activeMenuId = "Logs"
    /\ settings = None
    /\ doneHandled = {}
    /\ instanceStore = SetToSortedSeq(catalog)
    /\ instanceStateStore = EmptyMap
    /\ logStore = IF appVersion = "setup" THEN StartupLogs(catalog) ELSE EmptyMap
    /\ writableMap = EmptyMap
    /\ issued = {}
    /\ authorized = EmptyMap
    /\ startCalls = NoCalls
    /\ pollCalls = NoCalls
    /\ loginCalls = NoCalls
    /\ accountsCalls = NoCalls
    /\ loginId = 0
    /\ deviceCode = None
    /\ authenticationError = Undefined
    /\ accountInfo = None
    /\ selectedInstance = None
    /\ selectedLog = None
    /\ logs = <<>>
    /\ ManifestsStarted({"none"})
    /\ PagesIdle
    /\ ExecutorIdle([d \in Destinations |-> "good"])
    /\ ResolverIdle
    /\ ShotsStarted([n \in Names |-> {}])
    /\ TerminalIdle
    /\ LateIdle

NextTerminal ==
    \/ \E sel \in Selections : retrieveLogLines(sel)
    \/ \E c \in Pending(readCalls) : ServeReadLogLines(c)
    \/ \E c \in Pending(readCalls) : ReadSettled(c)

SpecTerminal == InitTerminal /\ [][NextTerminal]_vars

\* C18: once no read_log_lines call is outstanding, the terminal holds exactly
\* the lines read_log_lines returns for the selected instance and log that
\* pass the current filter, in order, each with the colour of its lineType.
C18_TerminalShowsSelectedLog ==
    (termSelection # None /\ readCalls = NoCalls) =>
        LET sel == Get(termSelection)
        IN  terminal = retrieveLogLinesWritten(ReadLogLines(sel.instance, sel.log),
                                               sel.useRegex, sel.filter)

\* C22: when the last outstanding read_log_lines call resolves, the terminal
\* is left with the lines of the latest selection, not with those of a
\* selection made before it.
C22_LastSettleShowsLatestSelection ==
    [][(readCalls # NoCalls /\ readCalls' = NoCalls) =>
          LET sel == Get(termSelection')
          IN  terminal' = retrieveLogLinesWritten(ReadLogLines(sel.instance, sel.log),
                                                  sel.useRegex, sel.filter)]_vars

----------------------------------------------------------------------------
\* Properties of a run

\* C1: a launch_instance call that is served while a run of its instance is
\* in progress returns AlreadyRunning; serving it spawns no process, emits
\* nothing and leaves the lock table and the reported states as they were,
\* and so does the front end when the rejected promise settles.
C1_SecondLaunchRejected ==
    [][\A c \in Pending(launchCalls) :
          /\ (Served(c, launchCalls, launchCalls') /\ running[c.instanceName]) =>
                /\ CopiesIn([c EXCEPT !.status = "AlreadyRunning"], launchCalls')
                     = CopiesIn([c EXCEPT !.status = "AlreadyRunning"], launchCalls) + 1
                /\ spawned' = spawned
                /\ running' = running
                /\ emitted' = emitted
                /\ instanceStateStore' = instanceStateStore
          /\ (Continued(c, launchCalls, launchCalls') /\ c.status = "AlreadyRunning") =>
                /\ spawned' = spawned
                /\ running' = running
                /\ emitted' = emitted
                /\ instanceStateStore' = instanceStateStore
      ]_vars

\* A second launch was refused while the first run, reported Initialized, goes on
C1_Witness ==
    \E c \in Pending(launchCalls) :
        /\ c.status = "AlreadyRunning"
        /\ running[c.instanceName]
        /\ spawned[c.instanceName] = 1
        /\ StateOf(instanceStateStore, c.instanceName) = Initialized

\* The step dispatches a sentinel line of instance n
SentinelDelivered(n) ==
    /\ eventQ[n] # <<>>
    /\ eventQ'[n] = Tail(eventQ[n])
    /\ Head(eventQ[n]).type = "instance-logging"
    /\ IsSentinel(Head(eventQ[n]).line)

\* C3: whenever a sentinel line of a launched instance is dispatched, the
\* instance's reported state is Initialized afterwards, and the state becomes
\* Initialized only in such a step.
C3_SentinelSetsInitialized ==
    [][\A n \in Names :
          /\ SentinelDelivered(n) => StateOf(instanceStateStore', n) = Initialized
          /\ (/\ StateOf(instanceStateStore, n) # Initialized
              /\ StateOf(instanceStateStore', n) = Initialized) => SentinelDelivered(n)
      ]_vars

\* A sentinel line of the current run of n has been dispatched
SentinelSeen(n) ==
    \E k \in 1..(Len(emitted[n]) - Len(eventQ[n])) :
        /\ emitted[n][k].type = "instance-logging"
        /\ emitted[n][k].run = spawned[n]
        /\ IsSentinel(emitted[n][k].line)

\* C4: within one run, once a sentinel line has made the state Initialized,
\* no step sets it back to Initializing.
C4_NeverBackToInitializing ==
    [][\A n \in Names :
          (/\ running[n] /\ running'[n] /\ spawned'[n] = spawned[n]
           /\ SentinelSeen(n)
           /\ StateOf(instanceStateStore, n) = Initialized)
          => StateOf(instanceStateStore', n) # Initializing
      ]_vars

\* C5: in the emission order of an instance, no event of a run follows the
\* instance-exited event of that run.
C5_ExitedIsLast ==
    \A n \in Names : \A p, q \in 1..Len(emitted[n]) :
        (p < q /\ emitted[n][p].type = "instance-exited")
        => emitted[n][q].run # emitted[n][p].run

\* A run logged and exited, and the next run of the instance logged after it
C5_Witness ==
    \E n \in Names :
        /\ Len(emitted[n]) >= 3
        /\ emitted[n][1].type = "instance-logging"
        /\ emitted[n][2].type = "instance-exited"
        /\ emitted[n][3].type = "instance-logging"
        /\ emitted[n][3].run = 2

\* The refresh token of the active account is rejected when c is served
RefreshRejectedFor(c) ==
    /\ ~running[c.instanceName]
    /\ active_account \notin tokenFresh
    /\ active_account \notin refreshOk

\* C20: once the instance-exited event of an instance's last run has been
\* dispatched and no launch of it is under way, the instance has no entry in
\* the instance state store.
C20_ExitedInstanceHasNoState ==
    \A n \in Names :
        (/\ ~running[n]
         /\ emitted[n] # <<>>
         /\ emitted[n][Len(emitted[n])] = ExitedEvent(n, spawned[n])
         /\ eventQ[n] = <<>>
         /\ launchCalls = NoCalls)
        => StateOf(instanceStateStore, n) = Undefined

\* C21: when the promise of the startup get_logs call resolves, every log id
\* it returned for an instance is in the log store with the lines returned.
C21_ReturnedLogsInStore ==
    [][\A c \in Pending(logsCalls) :
          (c.status = "ok" /\ logsCalls' = RemoveCall(logsCalls, c)) =>
              LET store == IF appVersion = "setup" THEN logStore' ELSE writableMap'
              IN  \A n \in DOMAIN c.result : \A k \in DOMAIN c.result[n] :
                      /\ MapHas(store, n)
                      /\ MapHas(store[n], k)
                      /\ store[n][k] = c.result[n][k]]_vars

\* C10: a launch_instance call served when the stored refresh token is
\* rejected aborts: one authentication-error event of kind RefreshRejected is
\* emitted and no child process is spawned.
C10_RefreshRejectedAborts ==
    [][\A c \in Pending(launchCalls) :
          (Served(c, launchCalls, launchCalls') /\ RefreshRejectedFor(c)) =>
              /\ authErrors' = Append(authErrors,
                    [uuid |-> active_account, kind |-> "RefreshRejected"])
              /\ spawned' = spawned
              /\ running' = running
              /\ CopiesIn([c EXCEPT !.status = "ok"], launchCalls')
                    = CopiesIn([c EXCEPT !.status = "ok"], launchCalls)
      ]_vars

\* A launch was aborted by a rejected refresh token before any process ran
C10_Witness ==
    /\ Len(authErrors) = 1
    /\ authErrors[1].kind = "RefreshRejected"
    /\ \E c \in Pending(launchCalls) : c.status = "RefreshRejected"
    /\ \A n \in Names : spawned[n] = 0

----------------------------------------------------------------------------
\* Properties of the log stores

\* The live line list the front end holds for instance n
LiveLines(n) ==
    IF appVersion = "setup"
    THEN IF MapHas(logStore, n) /\ MapHas(logStore[n], RunningKey)
         THEN logStore[n][RunningKey] ELSE <<>>
    ELSE IF MapHas(writableMap, n) /\ MapHas(writableMap[n], ActiveKey)
         THEN writableMap[n][ActiveKey] ELSE <<>>

\* C2: for every instance, the live line list followed by the lines not yet
\* dispatched is the sequence of lines emitted for that instance: nothing is
\* lost, duplicated or reordered, whatever the other instance emits.
C2_LiveLinesAreEmittedLines ==
    \A n \in Names : LiveLines(n) \o LinesOf(eventQ[n]) = LinesOf(emitted[n])

\* Two different lines of one instance were dispatched in order, the other
\* instance's line in between or around them, and get_logs has resolved
C2_Witness ==
    /\ appVersion = "onMount"
    /\ logsCalls = NoCalls
    /\ LiveLines(TestName) = <<LinePlain, LineSettingUser>>
    /\ LiveLines(OtherConfig.instance_name) # <<>>

----------------------------------------------------------------------------
\* The New Instance modal (components/Modal/NewInstanceModal)

\* The launcher has started with `configs` installed and the view `menuId` of
\* Home on screen; no call is in flight and no sign-in is running
LauncherStarted(configs, menuId) ==
    /\ catalog = configs
    /\ running = [n \in Names |-> FALSE]
    /\ spawned = [n \in Names |-> 0]
    /\ emitted = [n \in Names |-> <<>>]
    /\ eventQ = [n \in Names |-> <<>>]
    /\ authErrors = <<>>
    /\ accounts = {"u1"}
    /\ active_account = "u1"
    /\ tokenFresh = {"u1"}
    /\ refreshOk = {"u1"}
    /\ launchCalls = NoCalls
    /\ loadCalls = NoCalls
    /\ obtainCalls = NoCalls
    /\ logsCalls = NoCalls
    /\ appVersion = "setup"
    /\ route = "/"
    /\ activeMenuId = menuId
    /\ settings = None
    /\ doneHandled = {}
    /\ instanceStore = SetToSortedSeq(catalog)
    /\ instanceStateStore = EmptyMap
    /\ logStore = StartupLogs(catalog)
    /\ writableMap = EmptyMap
    /\ issued = {}
    /\ authorized = EmptyMap
    /\ startCalls = NoCalls
    /\ pollCalls = NoCalls
    /\ loginCalls = NoCalls
    /\ accountsCalls = NoCalls
    /\ loginId = 0
    /\ deviceCode = None
    /\ authenticationError = Undefined
    /\ accountInfo = None
    /\ selectedInstance = None
    /\ selectedLog = None
    /\ logs = <<>>

\* A JavaScript value holding `entries`: a plain object has them as its own
\* properties, a Map holds them internally
JsObject(entries) == [kind |-> "object", entries |-> entries]

JsMap(entries) == [kind |-> "Map", entries |-> entries]

\* Object.entries(value): the own enumerable properties; a Map has none
ObjectEntries(value) == IF value.kind = "object" THEN value.entries ELSE EmptyMap

\* isValidVersionForForge (manifeststore.ts):
\* new Map(Object.entries(manifest.forge_versions)).has(vanillaVersion)
isValidVersionForForge(manifest, vanillaVersion) ==
    MapHas(ObjectEntries(manifest.forge_versions), vanillaVersion)

\* The manifests the modal is used with: Forge builds for some of the vanilla
\* versions; forge_versions as obtain_manifests returns it (a plain object)
\* or as setup() leaves it (new Map(Object.entries(...)))
ModalManifests ==
    { [ObtainManifests EXCEPT !.forge_versions =
                                  IF kind = "Map" THEN JsMap([v \in D |-> @[v]])
                                  ELSE JsObject([v \in D |-> @[v]])] :
        kind \in {"object", "Map"}, D \in SUBSET Versions }

\* NewInstance: the tabs of the modal
InstanceTypes == {"Vanilla", "Curseforge", "Modrinth", "Import Zip"}

\* VanillaOptions: the modloader tabs
ModloaderButtons == {"None", "Fabric", "Forge"}

\* What the file dialog of ImportZip returns: a path, or nothing when the
\* dialog is dismissed
ZipPaths == {Undefined, "pack.zip"}

\* NewInstance: $: instanceName
modalInstanceName(modloader, vanillaVersion) ==
    <<"Minecraft", " ">>
        \o (IF modloader = "None" THEN <<>> ELSE <<modloader, " ">>)
        \o vanillaVersion

\* VanillaOptions: the reactive statement that resets a Forge selection
resetModloader(manifest, modloader, vanillaVersion) ==
    IF /\ modloader = "Forge"
       /\ vanillaVersion # Undefined
       /\ ~isValidVersionForForge(manifest, vanillaVersion)
    THEN "None"
    ELSE modloader

\* VanillaOptions getBodyForModloaderTable; forge_versions.has() exists only
\* when forge_versions is a Map, otherwise the call throws and no row is made
getBodyForModloaderTable(manifest, modloader, vanillaVersion) ==
    IF modloader = "Fabric" THEN manifest.fabric_versions
    ELSE IF modloader = "Forge" /\ manifest.forge_versions.kind = "Map"
    THEN IF MapHas(manifest.forge_versions.entries, vanillaVersion)
         THEN Reverse(manifest.forge_versions.entries[vanillaVersion])
         ELSE <<>>
    ELSE <<>>

\* VanillaOptions is updated after `modloader` and `vanillaVersion` were
\* assigned: the reactive statement runs, then the modloader table is rendered
VanillaOptionsUpdated(modloader, vanillaVersion) ==
    LET manifest == Get(manifestStore)
        type == resetModloader(manifest, modloader, vanillaVersion)
        rows == getBodyForModloaderTable(manifest, type, vanillaVersion)
    IN  /\ selectedModloader' = type
        /\ selectedVanillaVersion' = vanillaVersion
        /\ selectedModloaderVersion' =
               IF type # "None" /\ Len(rows) > 0 THEN rows[1]
               ELSE selectedModloaderVersion

ModalUnchanged ==
    UNCHANGED <<browseVars, menuVars, fmtVars, logViewVars, pageVars, downloadVars, resolverVars, shotVars,
                terminalVars, coreVars, launchCalls, logsCalls, loadCalls, authVars,
                uiVars>>

\* Instances: the new-instance button opens the modal; NewInstance and
\* VanillaOptions are created, applyVanillaVersionFilters selects the first
\* vanilla version
openNewInstanceModal ==
    /\ InstancesMounted
    /\ ~showNewInstanceModal
    /\ showNewInstanceModal' = TRUE
    /\ selectedInstanceType' = "Vanilla"
    /\ VanillaOptionsUpdated("None", Get(manifestStore).vanilla_versions[1])
    /\ zipPath' = Undefined
    /\ UNCHANGED <<zipCalls, obtainCalls>>
    /\ ModalUnchanged

\* NewInstance updateSelections: a tab of the modal is clicked
updateSelections(type) ==
    /\ showNewInstanceModal
    /\ selectedInstanceType' = type
    /\ IF type = "Vanilla"
       THEN VanillaOptionsUpdated(selectedModloader, selectedVanillaVersion)
       ELSE UNCHANGED <<selectedModloader, selectedVanillaVersion,
                        selectedModloaderVersion>>
    /\ UNCHANGED <<showNewInstanceModal, zipPath, zipCalls, obtainCalls>>
    /\ ModalUnchanged

\* VanillaVersionTable: a vanilla version is clicked (bind:selected)
selectVanillaVersion(v) ==
    /\ showNewInstanceModal
    /\ selectedInstanceType = "Vanilla"
    /\ VanillaOptionsUpdated(selectedModloader, v)
    /\ UNCHANGED <<showNewInstanceModal, selectedInstanceType, zipPath, zipCalls,
                   obtainCalls>>
    /\ ModalUnchanged

\* VanillaOptions updateModloaderSelection: a modloader tab is clicked; the
\* Forge tab carries the class "disabled" while isValidVersionForForge fails
updateModloaderSelection(button) ==
    /\ showNewInstanceModal
    /\ selectedInstanceType = "Vanilla"
    /\ IF button = "Forge"
          /\ ~isValidVersionForForge(Get(manifestStore), selectedVanillaVersion)
       THEN UNCHANGED <<selectedModloader, selectedVanillaVersion,
                        selectedModloaderVersion>>
       ELSE VanillaOptionsUpdated(button, selectedVanillaVersion)
    /\ UNCHANGED <<showNewInstanceModal, selectedInstanceType, zipPath, zipCalls,
                   obtainCalls>>
    /\ ModalUnchanged

\* ImportZip browse(): zipPath = selected
browse(selected) ==
    /\ showNewInstanceModal
    /\ selectedInstanceType = "Import Zip"
    /\ zipPath' = selected
    /\ UNCHANGED <<showNewInstanceModal, selectedInstanceType, selectedModloader,
                   selectedVanillaVersion, selectedModloaderVersion, zipCalls,
                   obtainCalls>>
    /\ ModalUnchanged

\* NewInstance next(): the Next button is disabled while the instance name is
\* taken; obtain_version for the Vanilla tab, import_zip otherwise; close()
modalNext ==
    /\ showNewInstanceModal
    /\ modalInstanceName(selectedModloader, selectedVanillaVersion)
           \notin StoreNames(instanceStore)
    /\ IF selectedInstanceType = "Vanilla"
       THEN /\ BagCardinality(obtainCalls) < MaxCalls
            /\ obtainCalls' = AddCall(obtainCalls,
                   [settings |->
                       [instanceName |-> modalInstanceName(selectedModloader,
                                                           selectedVanillaVersion),
                        vanillaVersion |-> selectedVanillaVersion,
                        modloaderType |-> selectedModloader,
                        modloaderVersion |->
                            IF selectedModloaderVersion = Undefined THEN <<>>
                            ELSE selectedModloaderVersion],
                    status |-> "sent"])
            /\ UNCHANGED zipCalls
       ELSE /\ BagCardinality(zipCalls) < MaxCalls
            /\ zipCalls' = AddCall(zipCalls, [zipPath |-> zipPath])
            /\ UNCHANGED obtainCalls
    /\ showNewInstanceModal' = FALSE
    /\ UNCHANGED <<selectedInstanceType, selectedModloader, selectedVanillaVersion,
                   selectedModloaderVersion, zipPath>>
    /\ ModalUnchanged

\* NewInstance close(): the modal is destroyed
closeModal ==
    /\ showNewInstanceModal
    /\ showNewInstanceModal' = FALSE
    /\ UNCHANGED <<selectedInstanceType, selectedModloader, selectedVanillaVersion,
                   selectedModloaderVersion, zipPath, zipCalls, obtainCalls>>
    /\ ModalUnchanged

\* The launcher has started with one of the manifests in the store and the
\* Instances view is shown
InitModal ==
    /\ LauncherStarted({TestConfig}, "Instances")
    /\ manifestStore \in { Some(m) : m \in ModalManifests }
    /\ manifestRequests = 1
    /\ prefetch = "none"
    /\ PagesIdle
    /\ ExecutorIdle([d \in Destinations |-> "good"])
    /\ ResolverIdle
    /\ ShotsStarted([n \in Names |-> {}])
    /\ TerminalIdle
    /\ LateIdle

NextModal ==
    \/ openNewInstanceModal
    \/ \E type \in InstanceTypes : updateSelections(type)
    \/ \E v \in Versions : selectVanillaVersion(v)
    \/ \E button \in ModloaderButtons : updateModloaderSelection(button)
    \/ \E selected \in ZipPaths : browse(selected)
    \/ modalNext
    \/ closeModal

SpecModal == InitModal /\ [][NextModal]_vars

\* C25: for the vanilla version selected in the open modal,
\* isValidVersionForForge is true exactly when forge_versions has an entry
\* for it, whether forge_versions is a plain object or a Map.
C25_ValidExactlyWhenForgeHasEntry ==
    (showNewInstanceModal /\ selectedVanillaVersion # Undefined) =>
        LET manifest == Get(manifestStore)
        IN  isValidVersionForForge(manifest, selectedVanillaVersion)
                <=> MapHas(manifest.forge_versions.entries, selectedVanillaVersion)

\* C28: import_zip is invoked only while the Import Zip tab is selected and a
\* zip path has been chosen.
C28_ImportZipOnlyWithChosenArchive ==
    [][zipCalls' # zipCalls =>
          /\ selectedInstanceType = "Import Zip"
          /\ zipPath # Undefined]_vars

----------------------------------------------------------------------------
\* The CurseForge browser (new-instance/thirdparty-content/BrowseCurseforge)

\* The search texts the user types ("" first)
SearchFilters == { <<>>, <<"sky">> }

\* search_curseforge: the service has LastPage pages of one modpack each for
\* every search text, and nothing beyond them
LastPage == 2

SearchCurseforge(filter, p) ==
    IF p < LastPage THEN << <<filter, p>> >> ELSE <<>>

RECURSIVE PagesUpTo(_, _)
\* The result pages 0..n-1 of `filter`, concatenated
PagesUpTo(filter, n) ==
    IF n = 0 THEN <<>>
    ELSE PagesUpTo(filter, n - 1) \o SearchCurseforge(filter, n - 1)

BrowseUnchanged ==
    UNCHANGED <<modalVars, menuVars, fmtVars, logViewVars, pageVars, downloadVars, resolverVars,
                shotVars, terminalVars, coreVars, launchCalls, logsCalls, loadCalls,
                obtainCalls, authVars, uiVars>>

\* The user edits the search text: the reactive statement calls
\* reloadModpacks, which invokes search_curseforge for page 0
reloadModpacks(filter) ==
    /\ filter # searchFilter
    /\ BagCardinality(searchCalls) < MaxCalls
    /\ searchFilter' = filter
    /\ searchCalls' = AddCall(searchCalls,
                          [origin |-> "reload", page |-> 0, searchFilter |-> filter,
                           status |-> "sent", result |-> <<>>])
    /\ UNCHANGED <<browsePage, modpacks, infiniteStatus>>
    /\ BrowseUnchanged

\* InfiniteLoading reaches the end of the list and emits `infinite`:
\* infiniteHandler invokes search_curseforge for the current page
infiniteHandler ==
    /\ infiniteStatus = "ready"
    /\ BagCardinality(searchCalls) < MaxCalls
    /\ infiniteStatus' = "loading"
    /\ searchCalls' = AddCall(searchCalls,
                          [origin |-> "infinite", page |-> browsePage,
                           searchFilter |-> searchFilter,
                           status |-> "sent", result |-> <<>>])
    /\ UNCHANGED <<searchFilter, browsePage, modpacks>>
    /\ BrowseUnchanged

\* search_curseforge returns the page asked for
ServeSearch(c) ==
    /\ c \in Pending(searchCalls)
    /\ c.status = "sent"
    /\ searchCalls' = ReplaceCall(searchCalls, c,
                          [c EXCEPT !.status = "ok",
                                    !.result = SearchCurseforge(c.searchFilter, c.page)])
    /\ UNCHANGED <<searchFilter, browsePage, modpacks, infiniteStatus>>
    /\ BrowseUnchanged

\* The promise of a search_curseforge call resolves: reloadModpacks assigns
\* the list and page = 0; infiniteHandler appends and calls loaded(), or
\* calls complete() on an empty page
SearchSettled(c) ==
    /\ c \in Pending(searchCalls)
    /\ c.status = "ok"
    /\ searchCalls' = RemoveCall(searchCalls, c)
    /\ IF c.origin = "reload"
       THEN /\ modpacks' = c.result
            /\ browsePage' = 0
            /\ UNCHANGED infiniteStatus
       ELSE IF Len(c.result) > 0
       THEN /\ browsePage' = browsePage + 1
            /\ modpacks' = modpacks \o c.result
            /\ infiniteStatus' = "ready"
       ELSE /\ infiniteStatus' = "complete"
            /\ UNCHANGED <<browsePage, modpacks>>
    /\ UNCHANGED searchFilter
    /\ BrowseUnchanged

\* The browser has been created and getCategories() has resolved: the
\* dropdowns were assigned, so reloadModpacks has invoked its first search
InitBrowse ==
    /\ LauncherStarted({TestConfig}, "Instances")
    /\ ManifestsStarted({"none"})
    /\ PagesIdle
    /\ ExecutorIdle([d \in Destinations |-> "good"])
    /\ ResolverIdle
    /\ ShotsStarted([n \in Names |-> {}])
    /\ TerminalIdle
    /\ ModalIdle
    /\ MenuIdle
    /\ FormatIdle
    /\ searchFilter = <<>>
    /\ browsePage = 0
    /\ modpacks = <<>>
    /\ searchCalls = SetToBag({[origin |-> "reload", page |-> 0, searchFilter |-> <<>>,
                                status |-> "sent", result |-> <<>>]})
    /\ infiniteStatus = "ready"

NextBrowse ==
    \/ \E filter \in SearchFilters : reloadModpacks(filter)
    \/ infiniteHandler
    \/ \E c \in Pending(searchCalls) : ServeSearch(c)
    \/ \E c \in Pending(searchCalls) : SearchSettled(c)

SpecBrowse == InitBrowse /\ [][NextBrowse]_vars

\* C26: once every search_curseforge call has resolved, the modpack list is
\* the concatenation of the result pages 0..page-1 of the current search
\* text, each page once.
C26_ListIsPagesOfCurrentFilter ==
    searchCalls = NoCalls => modpacks = PagesUpTo(searchFilter, browsePage)

----------------------------------------------------------------------------
\* The context menu of the Instances view (modal/RightClickModal)

\* The elements of the page a right click can land on. `tile` is the id of
\* the .instance element the element is inside of, if any, `menu` whether it is
\* inside #right-click-menu. Of a tile only the tile itself carries an id;
\* the image, the version text and the name heading inside it have none.
TileOf(n) == [id |-> n, tile |-> None, menu |-> FALSE]

TileChildOf(n) == [id |-> <<>>, tile |-> Some(n), menu |-> FALSE]

PageBody == [id |-> <<>>, tile |-> None, menu |-> FALSE]

MenuButton == [id |-> <<>>, tile |-> None, menu |-> TRUE]

Targets(store) ==
    { TileOf(n) : n \in StoreNames(store) }
        \cup { TileChildOf(n) : n \in StoreNames(store) }
        \cup {PageBody, MenuButton}

\* target.matches(".instance *")
matchesInstanceDescendant(target) == target.tile # None

MenuUnchanged ==
    UNCHANGED <<modalVars, browseVars, fmtVars, logViewVars, pageVars, downloadVars,
                resolverVars, shotVars, terminalVars, coreVars, launchCalls,
                logsCalls, loadCalls, obtainCalls, authVars, uiVars>>

\* onRightClick after the optional wait: validClasses is ["instance"], so
\* only a descendant of a tile becomes lastTarget and shows the menu
showForTarget(target) ==
    IF matchesInstanceDescendant(target)
    THEN /\ lastTarget' = Some(target)
         /\ showMenu' = TRUE
    ELSE UNCHANGED <<lastTarget, showMenu>>

\* onRightClick: a contextmenu event on `target`; an open menu is hidden and
\* the handler waits 100 ms before it goes on
onRightClick(target) ==
    /\ InstancesMounted
    /\ target \in Targets(instanceStore)
    /\ target.menu => showMenu
    /\ IF showMenu /\ ~target.menu
       THEN /\ BagCardinality(timers) < MaxCalls
            /\ showMenu' = FALSE
            /\ timers' = AddCall(timers, target)
            /\ UNCHANGED lastTarget
       ELSE /\ showForTarget(target)
            /\ UNCHANGED timers
    /\ UNCHANGED folderCalls
    /\ MenuUnchanged

\* The 100 ms timer of a waiting onRightClick fires
onRightClickContinuation(target) ==
    /\ target \in Pending(timers)
    /\ timers' = RemoveCall(timers, target)
    /\ showForTarget(target)
    /\ UNCHANGED folderCalls
    /\ MenuUnchanged

\* openFolder: the "Open Folder" button of the menu is clicked
openFolder ==
    /\ showMenu
    /\ BagCardinality(folderCalls) < MaxCalls
    /\ IF lastTarget # None
       THEN folderCalls' = AddCall(folderCalls, [instanceName |-> Get(lastTarget).id])
       ELSE UNCHANGED folderCalls
    /\ showMenu' = FALSE
    /\ UNCHANGED <<lastTarget, timers>>
    /\ MenuUnchanged

\* close: a click outside the menu
closeMenu ==
    /\ showMenu
    /\ showMenu' = FALSE
    /\ UNCHANGED <<lastTarget, timers, folderCalls>>
    /\ MenuUnchanged

\* The launcher has started with two instances and the Instances view is shown
InitMenu ==
    /\ LauncherStarted({TestConfig, OtherConfig}, "Instances")
    /\ ManifestsStarted({"none"})
    /\ PagesIdle
    /\ ExecutorIdle([d \in Destinations |-> "good"])
    /\ ResolverIdle
    /\ ShotsStarted([n \in Names |-> {}])
    /\ TerminalIdle
    /\ LateIdle

NextMenu ==
    \/ \E target \in Targets(instanceStore) : onRightClick(target)
    \/ \E target \in Pending(timers) : onRightClickContinuation(target)
    \/ openFolder
    \/ closeMenu

SpecMenu == InitMenu /\ [][NextMenu]_vars

\* C27: whenever "Open Folder" invokes open_folder, instanceName is the name
\* of the instance tile the remembered right click landed in.
C27_OpenFolderNamesClickedTile ==
    [][folderCalls' # folderCalls =>
          folderCalls' = AddCall(folderCalls,
                                 [instanceName |-> Get(Get(lastTarget).tile)])]_vars

----------------------------------------------------------------------------
\* screenshotStore.sort() (store/screenshotstore.ts), applied by setup()

\* sort: update(map => sortMap(map)). sortMap iterates Object.entries(map) and
\* returns a new Map
storeSort(value) == JsMap(sortMap(ObjectEntries(value)))

SortUnchanged ==
    UNCHANGED <<lateVars, logViewVars, pageVars, downloadVars, resolverVars,
                terminalVars, coreVars, launchCalls, logsCalls, loadCalls,
                obtainCalls, authVars, uiVars, shots, shotCalls>>

\* screenshotStore.sort()
sort ==
    /\ screenshotStore' = storeSort(screenshotStore)
    /\ SortUnchanged

\* setup() has assigned the object get_screenshots returned to the store,
\* for any screenshots of the two instances, and has not sorted it yet
InitSort ==
    /\ LauncherStarted({TestConfig, OtherConfig}, "Instances")
    /\ ManifestsStarted({"none"})
    /\ PagesIdle
    /\ ExecutorIdle([d \in Destinations |-> "good"])
    /\ ResolverIdle
    /\ shots \in [Names -> SUBSET ShotNames]
    /\ \A n \in Names \ CatalogNames : shots[n] = {}
    /\ shotCalls = NoCalls
    /\ screenshotStore = JsObject(GetScreenshots(shots))
    /\ TerminalIdle
    /\ LateIdle

SpecSort == InitSort /\ [][sort]_vars

\* C29: sorting a store that sort() has already turned into a Map leaves it
\* as it is: every instance key and every screenshot list is kept.
C29_SortTwiceKeepsStore ==
    [][screenshotStore.kind = "Map" => screenshotStore' = screenshotStore]_vars

----------------------------------------------------------------------------
\* formatDownloads (downloadfmt.ts)

abbreviations == <<"k", "M", "B">>

RECURSIVE FloorLog1000(_)
\* Math.floor(Math.log(n) / Math.log(1000)) for n >= 1
FloorLog1000(n) == IF n < 1000 THEN 0 ELSE 1 + FloorLog1000(n \div 1000)

RECURSIVE Pow1000(_)
\* 1000 ** base
Pow1000(base) == IF base = 0 THEN 1 ELSE 1000 * Pow1000(base - 1)

\* random(n / divisor, 2), in hundredths: Math.round(n / divisor * 100); the
\* result divided by 100 is the number printed
random(n, divisor) == (2 * n * 100 + divisor) \div (2 * divisor)

\* A quotient exactly halfway between two hundredths, where the rounding of
\* the double product decides the result
IsTie(n) ==
    /\ n >= 1000
    /\ LET divisor == Pow1000(FloorLog1000(n))
       IN  (2 * n * 100) % (2 * divisor) = divisor

\* formatDownloads: the number printed, in hundredths, and the suffix after
\* it. Math.log(0) is -Infinity, which like every base below 1 selects no
\* abbreviation
formatDownloads(n) ==
    LET base == IF n = 0 THEN -1 ELSE FloorLog1000(n)
        index == IF base - 1 < Len(abbreviations) - 1 THEN base - 1
                 ELSE Len(abbreviations) - 1
        found == index >= 0
        newBase == IF found THEN index + 1 ELSE 0
    IN  IF found
        THEN [hundredths |-> random(n, Pow1000(newBase)),
              suffix |-> abbreviations[index + 1]]
        ELSE [hundredths |-> 100 * n, suffix |-> ""]

\* The download counts formatted: small ones, and the ones around 1000 and
\* 1000000, without the ties
DownloadCounts ==
    { n \in (0 .. 20) \cup (990 .. 1010) \cup (999990 .. 1000010)
                      \cup {1234, 15000, 999949, 1500000} : ~IsTie(n) }

FormatUnchanged ==
    UNCHANGED <<modalVars, browseVars, menuVars, logViewVars, pageVars,
                downloadVars, resolverVars, shotVars, terminalVars, coreVars,
                launchCalls, logsCalls, loadCalls, obtainCalls, authVars, uiVars>>

\* CurseforgeModpackRow renders the download count of its modpack
renderDownloads ==
    /\ formatted' = Some(formatDownloads(downloadCount))
    /\ UNCHANGED downloadCount
    /\ FormatUnchanged

\* A modpack row is about to be rendered for a modpack with any of the
\* download counts
InitFormat ==
    /\ LauncherStarted({TestConfig}, "Instances")
    /\ ManifestsStarted({"none"})
    /\ PagesIdle
    /\ ExecutorIdle([d \in Destinations |-> "good"])
    /\ ResolverIdle
    /\ ShotsStarted([n \in Names |-> {}])
    /\ TerminalIdle
    /\ ModalIdle
    /\ BrowseIdle
    /\ MenuIdle
    /\ downloadCount \in DownloadCounts
    /\ formatted = None

SpecFormat == InitFormat /\ [][renderDownloads]_vars

\* C30: formatDownloads(n) is n itself below 1000; from 1000 on it is n
\* divided by the largest power of 1000 not above n, rounded to two decimals,
\* with suffix k or M, and the number printed is at least 1 and below 1000.
C30_FormattedWithinRange ==
    formatted # None =>
        LET n == downloadCount
            text == Get(formatted)
            power == Pow1000(FloorLog1000(n))
        IN  IF n < 1000
            THEN text = [hundredths |-> 100 * n, suffix |-> ""]
            ELSE /\ text.suffix = IF power = 1000 THEN "k" ELSE "M"
                 /\ 2 * power * text.hundredths - power <= 2 * n * 100
                 /\ 2 * n * 100 < 2 * power * text.hundredths + power
                 /\ 100 <= text.hundredths
                 /\ text.hundredths < 100000

====
